---- MODULE Spec2Model ----
(***************************************************************************)
(* A model of the quorum rules engine (src/src/board.rs), its position     *)
(* hashing (src/src/hashes.rs, src/build.rs) and its cache-augmented       *)
(* minimax search (src/src/ai.rs).                                         *)
(*                                                                         *)
(* Coordinates are pairs <<x, y>>.  A 64-bit hash is modelled as the       *)
(* formal XOR of entries of the three constant tables: the set of table    *)
(* slots that occur an odd number of times, so that XOR is symmetric       *)
(* difference and 0 is the empty set.  The tables are filled from a        *)
(* pseudorandom stream (build.rs), so two hashes are equal exactly when    *)
(* their formal XORs are, up to accidental 64-bit collisions.              *)
(***************************************************************************)
EXTENDS Integers, Sequences, FiniteSets, TLC

VARIABLES board, ply, last, tt, aborted, search

vars == <<board, ply, last, tt, aborted, search>>

(***************************************************************************)
(* Bounds of the model.                                                    *)
(***************************************************************************)
MaxPly == 2
MaxConversions == 2
MaxInitReserve == 1

MaxDepth == 2

(***************************************************************************)
(* Generic helpers.                                                        *)
(***************************************************************************)
Range(s) == { s[i] : i \in DOMAIN s }

Abs(n) == IF n < 0 THEN -n ELSE n

Max(a, b) == IF a >= b THEN a ELSE b

Min(a, b) == IF a <= b THEN a ELSE b

(***************************************************************************)
(* board.rs: Color, Move                                                   *)
(***************************************************************************)
Colors == {"White", "Black"}

opponent(color) == IF color = "White" THEN "Black" ELSE "White"

Movement(color, active, pivot, conversions) ==
    [kind |-> "Movement", color |-> color, active |-> active, pivot |-> pivot,
     conversions |-> conversions, at |-> <<0, 0>>]

Placement(color, at) ==
    [kind |-> "Placement", color |-> color, active |-> <<0, 0>>, pivot |-> <<0, 0>>,
     conversions |-> {}, at |-> at]

NoMove ==
    [kind |-> "None", color |-> "White", active |-> <<0, 0>>, pivot |-> <<0, 0>>,
     conversions |-> {}, at |-> <<0, 0>>]

movement(color, active, pivot) == Movement(color, active, pivot, {})

dest(mov) ==
    IF mov.kind = "Movement"
    THEN LET dx == mov.pivot[1] - mov.active[1]
             dy == mov.pivot[2] - mov.active[2]
         IN  <<mov.pivot[1] + dx, mov.pivot[2] + dy>>
    ELSE mov.at

\* gap() asserts active != pivot; GapAsserts is the failure of that assertion.
GapAsserts(mov) == mov.kind = "Movement" /\ mov.active = mov.pivot

\* gap as the first version of the rules computed it (|dx - 1| for |dx| - 1).
gap_inner_abs(mov) ==
    IF mov.kind = "Movement"
    THEN Max(Abs(mov.active[1] - mov.pivot[1] - 1), Abs(mov.active[2] - mov.pivot[2] - 1))
    ELSE 0

gap(mov) ==
    IF mov.kind = "Movement"
    THEN Max(Abs(mov.active[1] - mov.pivot[1]) - 1, Abs(mov.active[2] - mov.pivot[2]) - 1)
    ELSE 0

(***************************************************************************)
(* hashes.rs, build.rs: the three tables and the lookups into them.        *)
(***************************************************************************)
N_PIECE_HASHES == 9 * 9 * 2

N_RESERVE_HASHES == 20 * 2

color_to_num(color) == IF color = "White" THEN 1 ELSE 0

XorHash(h1, h2) == (h1 \ h2) \cup (h2 \ h1)

PieceIndex(color, coord) == 81 * color_to_num(color) + 9 * coord[1] + coord[2]

\* piece_hash aborts on a negative coordinate or an index outside PIECE_HASHES.
PieceHashPanics(color, coord) ==
    \/ coord[1] < 0
    \/ coord[2] < 0
    \/ PieceIndex(color, coord) >= N_PIECE_HASHES

piece_hash(color, coord) == { <<"PIECE", PieceIndex(color, coord)>> }

ReserveIndex(color, reserve) == 20 * color_to_num(color) + reserve

\* reserve_hash aborts on a negative reserve or an index outside RESERVE_HASHES.
ReserveHashPanics(color, reserve) ==
    \/ reserve < 0
    \/ ReserveIndex(color, reserve) >= N_RESERVE_HASHES

reserve_hash(color, reserve) == { <<"RESERVE", ReserveIndex(color, reserve)>> }

turn_hash(color) == { <<"TURN", color_to_num(color)>> }

RECURSIVE XorAll(_)
XorAll(hs) ==
    IF hs = <<>> THEN {} ELSE XorHash(Head(hs), XorAll(Tail(hs)))

(***************************************************************************)
(* board.rs: Board                                                         *)
(***************************************************************************)
InBoundsFor(board_size, coord) ==
    /\ 0 <= coord[1] /\ coord[1] < board_size
    /\ 0 <= coord[2] /\ coord[2] < board_size

\* from_position looking at the white pieces only.
FromPositionPanics_white_only(board_size, white, black) ==
    \E c \in white : ~InBoundsFor(board_size, c)

FromPositionPanics(board_size, white, black) ==
    \/ \E c \in white : ~InBoundsFor(board_size, c)
    \/ \E c \in black : ~InBoundsFor(board_size, c)

from_position(board_size, whose_move, white, black) ==
    [board_size |-> board_size, whose_move |-> whose_move, white |-> white,
     black |-> black, white_reserve |-> 0, black_reserve |-> 0, max_gap |-> 2,
     zobrist_hash |-> {}]

all_pieces(b) == b.white \cup b.black

all_coords(b) == { <<x, y>> : x \in 0..(b.board_size - 1), y \in 0..(b.board_size - 1) }

in_bounds(b, coord) == InBoundsFor(b.board_size, coord)

start_position(board_size) ==
    LET sq == { <<x, y>> : x \in 0..(board_size - 1), y \in 0..(board_size - 1) }
        white == { c \in sq : c[1] + c[2] < 4 \/ c[1] + c[2] > 2 * board_size - 6 }
        black == { c \in sq \ white :
                     \/ board_size - c[1] + c[2] < 5
                     \/ board_size - c[1] + c[2] > 2 * board_size - 5 }
    IN  from_position(board_size, "White", white, black)

pieces_of(b, color) == IF color = "White" THEN b.white ELSE b.black

reserve_of(b, color) == IF color = "White" THEN b.white_reserve ELSE b.black_reserve

\* The offsets of neighborhood(), in the order of its two nested loops.
NeighborOffsets ==
    << <<-1, -1>>, <<-1, 0>>, <<-1, 1>>, <<0, -1>>, <<0, 1>>, <<1, -1>>, <<1, 0>>, <<1, 1>> >>

\* neighborhood that keeps the squares beyond the edge of the board.
neighborhood_unbounded(b, coord) ==
    [i \in 1..8 |-> <<coord[1] + NeighborOffsets[i][1], coord[2] + NeighborOffsets[i][2]>>]

neighborhood(b, coord) ==
    LET all == [i \in 1..8 |-> <<coord[1] + NeighborOffsets[i][1],
                                 coord[2] + NeighborOffsets[i][2]>>]
        Keep(p) == in_bounds(b, p)
    IN  SelectSeq(all, Keep)

\* orthogonal_neighborhood widened to the diagonal neighbours.
orthogonal_neighborhood_diagonal(coord) ==
    { <<coord[1] + dx, coord[2] + dy>> : dx \in {-1, 0, 1}, dy \in {-1, 0, 1} } \ {coord}

orthogonal_neighborhood(coord) ==
    { <<coord[1] + 1, coord[2]>>, <<coord[1] - 1, coord[2]>>,
      <<coord[1], coord[2] + 1>>, <<coord[1], coord[2] - 1>> }

RECURSIVE FloodLoop(_, _, _, _)
FloodLoop(b, color, visited, queued) ==
    IF queued = {} THEN visited
    ELSE LET fresh == { n \in queued : n \in pieces_of(b, color) /\ n \notin visited }
         IN  FloodLoop(b, color, visited \cup fresh,
                       UNION { orthogonal_neighborhood(n) : n \in fresh })

flood_fill(b, color, source) ==
    FloodLoop(b, color, {source}, orthogonal_neighborhood(source))

\* color_connected starts from the first square the set's iterator yields, which
\* is any square of the set; it aborts (unwrap of None) on an empty set.
ColorConnectedPanics(b, color) == pieces_of(b, color) = {}

color_connected_from(b, color, source) ==
    Cardinality(flood_fill(b, color, source)) = Cardinality(pieces_of(b, color))

capturable_around(b, color, active, dst) ==
    LET Captured(maybe_captured) ==
            /\ maybe_captured \in pieces_of(b, opponent(color))
            /\ \A liberty \in Range(neighborhood(b, maybe_captured)) :
                  /\ (liberty \in all_pieces(b) \/ liberty = dst)
                  /\ active \notin Range(neighborhood(b, dst))
    IN  SelectSeq(neighborhood(b, dst), Captured)

\* convertible_around that lets the leaping piece itself be the flanker.
convertible_around_active_flanks(b, color, active, dst) ==
    LET Flanked(neighbor) ==
            LET flanker == <<(neighbor[1] - dst[1]) * 2 + dst[1],
                             (neighbor[2] - dst[2]) * 2 + dst[2]>>
            IN  /\ neighbor \in pieces_of(b, opponent(color))
                /\ flanker \in pieces_of(b, color)
    IN  SelectSeq(neighborhood(b, dst), Flanked)

convertible_around(b, color, active, dst) ==
    LET Flanked(neighbor) ==
            LET flanker == <<(neighbor[1] - dst[1]) * 2 + dst[1],
                             (neighbor[2] - dst[2]) * 2 + dst[2]>>
            IN  /\ flanker # active
                /\ neighbor \in pieces_of(b, opponent(color))
                /\ flanker \in pieces_of(b, color)
                /\ active \notin Range(capturable_around(b, color, active, dst))
    IN  SelectSeq(neighborhood(b, dst), Flanked)

\* valid_move: "None" is Option::None (legal), "Panic" the failed assertion of gap().
valid_move(b, mov) ==
    IF mov.kind = "Movement"
    THEN LET pieces == IF mov.color = "Black" THEN b.black ELSE b.white
             dst == dest(mov)
         IN  IF mov.active \notin pieces THEN "ActiveNotOwned"
             ELSE IF mov.pivot \notin pieces THEN "PivotNotOwned"
             ELSE IF dst \in all_pieces(b) THEN "DestNotEmpty"
             ELSE IF ~in_bounds(b, dst) THEN "DestNotInBounds"
             ELSE IF GapAsserts(mov) THEN "Panic"
             ELSE IF gap(mov) > b.max_gap THEN "GapTooBig"
             ELSE IF \E converted \in mov.conversions :
                        converted \in Range(capturable_around(b, mov.color, mov.active, dst))
                  THEN "TriedConvertCapture"
             ELSE "None"
    ELSE IF mov.at \in all_pieces(b) THEN "DestNotEmpty"
         ELSE IF reserve_of(b, mov.color) <= 0 THEN "EmptyReserve"
         ELSE "None"


NoDelta ==
    [white_minus |-> <<>>, white_plus |-> <<>>, black_minus |-> <<>>, black_plus |-> <<>>,
     white_reserve |-> 0, black_reserve |-> 0]

\* The delta of a move by `color`, from its own and its opponent's parts.
DeltaFor(color, own_minus, own_plus, own_reserve, opp_minus, opp_reserve) ==
    IF color = "White"
    THEN [white_minus |-> own_minus, white_plus |-> own_plus, white_reserve |-> own_reserve,
          black_minus |-> opp_minus, black_plus |-> <<>>, black_reserve |-> opp_reserve]
    ELSE [black_minus |-> own_minus, black_plus |-> own_plus, black_reserve |-> own_reserve,
          white_minus |-> opp_minus, white_plus |-> <<>>, white_reserve |-> opp_reserve]

\* move_delta with a conversion that costs the mover no reserve point.
move_delta_free_conversion(b, mov) ==
    IF mov.kind = "Movement"
    THEN LET dst == dest(mov)
             convertibles == convertible_around(b, mov.color, mov.active, dst)
             NotConvertible(c) == c \notin Range(convertibles)
             captured == SelectSeq(capturable_around(b, mov.color, mov.active, dst),
                                   NotConvertible)
             Declared(c) == c \in mov.conversions
             converted == SelectSeq(convertibles, Declared)
         IN  DeltaFor(mov.color, <<mov.active>>, <<dst>> \o converted, 0,
                      captured \o convertibles, Len(captured) + Len(convertibles))
    ELSE DeltaFor(mov.color, <<>>, <<mov.at>>, -1, <<>>, 0)

\* move_delta crediting removed opponent pieces to the reserve of the mover.
move_delta_capturer_reserve(b, mov) ==
    IF mov.kind = "Movement"
    THEN LET dst == dest(mov)
             convertibles == convertible_around(b, mov.color, mov.active, dst)
             NotConvertible(c) == c \notin Range(convertibles)
             captured == SelectSeq(capturable_around(b, mov.color, mov.active, dst),
                                   NotConvertible)
             Declared(c) == c \in mov.conversions
             converted == SelectSeq(convertibles, Declared)
         IN  DeltaFor(mov.color, <<mov.active>>, <<dst>> \o converted,
                      Len(captured) + Len(convertibles) - Len(converted),
                      captured \o convertibles, 0)
    ELSE DeltaFor(mov.color, <<>>, <<mov.at>>, -1, <<>>, 0)

\* move_delta leaving a flanked square that is not declared on the board.
move_delta_opt_in_capture(b, mov) ==
    IF mov.kind = "Movement"
    THEN LET dst == dest(mov)
             convertibles == convertible_around(b, mov.color, mov.active, dst)
             captured == capturable_around(b, mov.color, mov.active, dst)
             Declared(c) == c \in mov.conversions
             converted == SelectSeq(convertibles, Declared)
             Untouched(c) == c \notin Range(converted)
         IN  DeltaFor(mov.color, <<mov.active>>, <<dst>> \o converted, -Len(converted),
                      SelectSeq(captured, Untouched) \o converted,
                      Len(SelectSeq(captured, Untouched)) + Len(converted))
    ELSE DeltaFor(mov.color, <<>>, <<mov.at>>, -1, <<>>, 0)

\* move_delta leaving a converted square in the opponent's set as well.
move_delta_keeps_converted(b, mov) ==
    IF mov.kind = "Movement"
    THEN LET dst == dest(mov)
             convertibles == convertible_around(b, mov.color, mov.active, dst)
             NotConvertible(c) == c \notin Range(convertibles)
             captured == SelectSeq(capturable_around(b, mov.color, mov.active, dst),
                                   NotConvertible)
             Declared(c) == c \in mov.conversions
             Undeclared(c) == c \notin mov.conversions
             converted == SelectSeq(convertibles, Declared)
         IN  DeltaFor(mov.color, <<mov.active>>, <<dst>> \o converted, -Len(converted),
                      captured \o SelectSeq(convertibles, Undeclared),
                      Len(captured) + Len(convertibles))
    ELSE DeltaFor(mov.color, <<>>, <<mov.at>>, -1, <<>>, 0)

\* move_delta with a converted piece changing sides without passing through a reserve.
move_delta_conversion_swaps(b, mov) ==
    IF mov.kind = "Movement"
    THEN LET dst == dest(mov)
             convertibles == convertible_around(b, mov.color, mov.active, dst)
             NotConvertible(c) == c \notin Range(convertibles)
             captured == SelectSeq(capturable_around(b, mov.color, mov.active, dst),
                                   NotConvertible)
             Declared(c) == c \in mov.conversions
             converted == SelectSeq(convertibles, Declared)
         IN  DeltaFor(mov.color, <<mov.active>>, <<dst>> \o converted, 0,
                      captured \o convertibles,
                      Len(captured) + Len(convertibles) - Len(converted))
    ELSE DeltaFor(mov.color, <<>>, <<mov.at>>, -1, <<>>, 0)

\* move_delta with a placement that captures what it encircles.
move_delta_placement_captures(b, mov) ==
    IF mov.kind = "Movement"
    THEN LET dst == dest(mov)
             convertibles == convertible_around(b, mov.color, mov.active, dst)
             NotConvertible(c) == c \notin Range(convertibles)
             captured == SelectSeq(capturable_around(b, mov.color, mov.active, dst),
                                   NotConvertible)
             Declared(c) == c \in mov.conversions
             converted == SelectSeq(convertibles, Declared)
         IN  DeltaFor(mov.color, <<mov.active>>, <<dst>> \o converted, -Len(converted),
                      captured \o convertibles, Len(captured) + Len(convertibles))
    ELSE LET captured == capturable_around(b, mov.color, mov.at, mov.at)
         IN  DeltaFor(mov.color, <<>>, <<mov.at>>, -1, captured, Len(captured))

move_delta(b, mov) ==
    IF mov.kind = "Movement"
    THEN LET dst == dest(mov)
             convertibles == convertible_around(b, mov.color, mov.active, dst)
             NotConvertible(c) == c \notin Range(convertibles)
             captured == SelectSeq(capturable_around(b, mov.color, mov.active, dst),
                                   NotConvertible)
             Declared(c) == c \in mov.conversions
             converted == SelectSeq(convertibles, Declared)
         IN  DeltaFor(mov.color, <<mov.active>>, <<dst>> \o converted, -Len(converted),
                      captured \o convertibles, Len(captured) + Len(convertibles))
    ELSE DeltaFor(mov.color, <<>>, <<mov.at>>, -1, <<>>, 0)

ApplyToHashPanics(b, delta) ==
    \/ \E c \in Range(delta.white_plus) \cup Range(delta.white_minus) :
          PieceHashPanics("White", c)
    \/ \E c \in Range(delta.black_plus) \cup Range(delta.black_minus) :
          PieceHashPanics("Black", c)
    \/ ReserveHashPanics("White", b.white_reserve)
    \/ ReserveHashPanics("White", b.white_reserve + delta.white_reserve)
    \/ ReserveHashPanics("Black", b.black_reserve)
    \/ ReserveHashPanics("Black", b.black_reserve + delta.black_reserve)

\* A hash update that leaves the squares a colour loses in the hash.
apply_to_zobrist_hash_keeps_lost(b, delta) ==
    LET WhiteHash(c) == piece_hash("White", c)
        BlackHash(c) == piece_hash("Black", c)
        pieces == [i \in DOMAIN delta.white_plus |-> WhiteHash(delta.white_plus[i])]
                  \o [i \in DOMAIN delta.black_plus |-> BlackHash(delta.black_plus[i])]
    IN  XorAll(<<b.zobrist_hash>> \o pieces \o
               << reserve_hash("White", b.white_reserve),
                  reserve_hash("White", b.white_reserve + delta.white_reserve),
                  reserve_hash("Black", b.black_reserve),
                  reserve_hash("Black", b.black_reserve + delta.black_reserve),
                  turn_hash(b.whose_move),
                  turn_hash(opponent(b.whose_move)) >>)

apply_to_zobrist_hash(b, delta) ==
    LET WhiteHash(c) == piece_hash("White", c)
        BlackHash(c) == piece_hash("Black", c)
        pieces == [i \in DOMAIN delta.white_plus |-> WhiteHash(delta.white_plus[i])]
                  \o [i \in DOMAIN delta.white_minus |-> WhiteHash(delta.white_minus[i])]
                  \o [i \in DOMAIN delta.black_plus |-> BlackHash(delta.black_plus[i])]
                  \o [i \in DOMAIN delta.black_minus |-> BlackHash(delta.black_minus[i])]
    IN  XorAll(<<b.zobrist_hash>> \o pieces \o
               << reserve_hash("White", b.white_reserve),
                  reserve_hash("White", b.white_reserve + delta.white_reserve),
                  reserve_hash("Black", b.black_reserve),
                  reserve_hash("Black", b.black_reserve + delta.black_reserve),
                  turn_hash(b.whose_move),
                  turn_hash(opponent(b.whose_move)) >>)

\* apply aborts on a move valid_move rejects, and inside the hash update.
ApplyPanics(b, mov) ==
    \/ valid_move(b, mov) # "None"
    \/ ApplyToHashPanics(b, move_delta(b, mov))

\* apply forgetting to take the squares a colour loses off the board.
apply_keeps_lost(b, mov) ==
    LET delta == move_delta(b, mov)
    IN  [b EXCEPT
           !.zobrist_hash = apply_to_zobrist_hash(b, delta),
           !.white = b.white \cup Range(delta.white_plus),
           !.black = b.black \cup Range(delta.black_plus),
           !.white_reserve = b.white_reserve + delta.white_reserve,
           !.black_reserve = b.black_reserve + delta.black_reserve,
           !.whose_move = opponent(b.whose_move)]

\* apply handing the turn to the opponent of the colour that moved.
apply_turn_after_mover(b, mov) ==
    LET delta == move_delta(b, mov)
    IN  [b EXCEPT
           !.zobrist_hash = apply_to_zobrist_hash(b, delta),
           !.white = (b.white \ Range(delta.white_minus)) \cup Range(delta.white_plus),
           !.black = (b.black \ Range(delta.black_minus)) \cup Range(delta.black_plus),
           !.white_reserve = b.white_reserve + delta.white_reserve,
           !.black_reserve = b.black_reserve + delta.black_reserve,
           !.whose_move = opponent(mov.color)]

apply(b, mov) ==
    LET delta == move_delta(b, mov)
    IN  [b EXCEPT
           !.zobrist_hash = apply_to_zobrist_hash(b, delta),
           !.white = (b.white \ Range(delta.white_minus)) \cup Range(delta.white_plus),
           !.black = (b.black \ Range(delta.black_minus)) \cup Range(delta.black_plus),
           !.white_reserve = b.white_reserve + delta.white_reserve,
           !.black_reserve = b.black_reserve + delta.black_reserve,
           !.whose_move = opponent(b.whose_move)]


(***************************************************************************)
(* ai.rs: the transposition table.  `buckets` is the length of `contents`  *)
(* (0 for the static initialiser, TRANSPOSITION_TABLE_SIZE after new());   *)
(* `entries` lists the (hash, value) pairs of all buckets in the order of  *)
(* their insertion, and Bucket() selects those of one bucket.              *)
(***************************************************************************)
TRANSPOSITION_TABLE_SIZE == 1048576

\* static TRANSPOSITION_TABLE: a table without buckets.
StaticTable == [buckets |-> 0, entries |-> <<>>]

\* TranspositionTable::new()
NewTable == [buckets |-> TRANSPOSITION_TABLE_SIZE, entries |-> <<>>]

\* hash % TRANSPOSITION_TABLE_SIZE: the low 20 bits of the hash, a function of it.
BucketIndex(hash) == <<"LOW20", hash>>

\* Indexing that finds a bucket in every table.
TablePanics_never(table) == FALSE

\* Indexing `contents` aborts when the table has no buckets.
TablePanics(table) == table.buckets = 0

Bucket(table, index) ==
    LET InBucket(e) == BucketIndex(e.hash) = index
    IN  SelectSeq(table.entries, InBucket)

\* add that leaves the table as it is.
add_nothing(table, b, value) == table

\* add that overwrites the entry of the same hash when there is one.
add_replacing(table, b, value) ==
    LET SameHash(e) == e.hash = b.zobrist_hash
        Replaced(e) == IF SameHash(e) THEN [hash |-> e.hash, value |-> value] ELSE e
    IN  IF \E i \in DOMAIN table.entries : SameHash(table.entries[i])
        THEN [table EXCEPT !.entries = [i \in DOMAIN @ |-> Replaced(@[i])]]
        ELSE [table EXCEPT !.entries = Append(@, [hash |-> b.zobrist_hash, value |-> value])]

\* add that stores the default valuation in place of the value.
add_default_value(table, b, value) ==
    [table EXCEPT !.entries = Append(@, [hash |-> b.zobrist_hash, value |-> 0])]

add(table, b, value) ==
    [table EXCEPT !.entries = Append(@, [hash |-> b.zobrist_hash, value |-> value])]

\* Option<Valuation>: <<>> for None, <<v>> for Some(v).
NoValue == <<>>

\* get answering with the entry of the hash that was inserted last.
get_latest(table, b) ==
    LET SameHash(e) == e.hash = b.zobrist_hash
        found == SelectSeq(Bucket(table, BucketIndex(b.zobrist_hash)), SameHash)
    IN  IF found = <<>> THEN NoValue ELSE <<found[Len(found)].value>>

get(table, b) ==
    LET SameHash(e) == e.hash = b.zobrist_hash
        found == SelectSeq(Bucket(table, BucketIndex(b.zobrist_hash)), SameHash)
    IN  IF found = <<>> THEN NoValue ELSE <<found[1].value>>

(***************************************************************************)
(* board.rs: winner, moves_of, moves                                       *)
(***************************************************************************)
\* The order in which a set of squares is iterated: by x, then by y.
Before(a, c) == a[1] < c[1] \/ (a[1] = c[1] /\ a[2] < c[2])

RECURSIVE IterOrder(_)
IterOrder(squares) ==
    IF squares = {} THEN <<>>
    ELSE LET first == CHOOSE c \in squares : \A d \in squares \ {c} : Before(c, d)
         IN  <<first>> \o IterOrder(squares \ {first})

\* The call aborts on a colour without pieces (ColorConnectedPanics) and has no value then.
color_connected(b, color) ==
    /\ pieces_of(b, color) # {}
    /\ color_connected_from(b, color, IterOrder(pieces_of(b, color))[1])

\* winner() asking about both colours whatever the first answer is.
WinnerPanics_either(b) ==
    ColorConnectedPanics(b, "Black") \/ ColorConnectedPanics(b, "White")

WinnerPanics(b) ==
    \/ ColorConnectedPanics(b, "Black")
    \/ ~color_connected(b, "Black") /\ ColorConnectedPanics(b, "White")

\* winner that asks about White before Black.
winner_white_first(b) ==
    IF color_connected(b, "White") THEN "White"
    ELSE IF color_connected(b, "Black") THEN "Black"
    ELSE "NoWinner"

winner(b) ==
    IF color_connected(b, "Black") THEN "Black"
    ELSE IF color_connected(b, "White") THEN "White"
    ELSE "NoWinner"

\* itertools combinations(k) of a sequence, in its order.
RECURSIVE Combinations(_, _)
Combinations(seq, k) ==
    IF k = 0 THEN << <<>> >>
    ELSE IF Len(seq) < k THEN <<>>
    ELSE LET taken == Combinations(Tail(seq), k - 1)
         IN  [i \in DOMAIN taken |-> <<Head(seq)>> \o taken[i]]
             \o Combinations(Tail(seq), k)

RECURSIVE Flatten(_)
Flatten(seqs) == IF seqs = <<>> THEN <<>> ELSE Head(seqs) \o Flatten(Tail(seqs))

\* The movements for one (active, pivot) when every flanked square is converted,
\* whatever the reserve.
MovementsFor_convert_all(b, color, active, pivot) ==
    IF valid_move(b, movement(color, active, pivot)) # "None" THEN <<>>
    ELSE LET conversions == convertible_around(b, color, active,
                                               dest(movement(color, active, pivot)))
         IN  << Movement(color, active, pivot, Range(conversions)) >>

\* The movements moves_of pushes for one (active, pivot).
MovementsFor(b, color, active, pivot) ==
    IF valid_move(b, movement(color, active, pivot)) # "None" THEN <<>>
    ELSE LET conversions == convertible_around(b, color, active,
                                               dest(movement(color, active, pivot)))
         IN  IF Len(conversions) <= reserve_of(b, color)
             THEN << Movement(color, active, pivot, Range(conversions)) >>
             ELSE LET combos == Combinations(conversions, reserve_of(b, color))
                  IN  [i \in DOMAIN combos |->
                         Movement(color, active, pivot, Range(combos[i]))]

\* moves_of aborts on a negative reserve once a base movement is legal.
MovesOfPanics(b, color) ==
    /\ reserve_of(b, color) < 0
    /\ \E active \in pieces_of(b, color) : \E pivot \in pieces_of(b, color) :
          valid_move(b, movement(color, active, pivot)) = "None"

\* moves_of that offers a placement on every square, occupied or not.
moves_of_places_anywhere(b, color) ==
    LET own == IterOrder(pieces_of(b, color))
        mvmts == Flatten([i \in DOMAIN own |->
                            Flatten([j \in DOMAIN own |->
                                       MovementsFor(b, color, own[i], own[j])])])
        Legal(m) == valid_move(b, m) = "None"
        coords == [k \in 1..(b.board_size * b.board_size) |->
                     <<(k - 1) \div b.board_size, (k - 1) % b.board_size>>]
        Free(c) == reserve_of(b, color) > 0
        free == SelectSeq(coords, Free)
    IN  SelectSeq(mvmts, Legal) \o [k \in DOMAIN free |-> Placement(color, free[k])]

moves_of(b, color) ==
    LET own == IterOrder(pieces_of(b, color))
        mvmts == Flatten([i \in DOMAIN own |->
                            Flatten([j \in DOMAIN own |->
                                       MovementsFor(b, color, own[i], own[j])])])
        Legal(m) == valid_move(b, m) = "None"
        coords == [k \in 1..(b.board_size * b.board_size) |->
                     <<(k - 1) \div b.board_size, (k - 1) % b.board_size>>]
        Free(c) == reserve_of(b, color) > 0 /\ c \notin all_pieces(b)
        free == SelectSeq(coords, Free)
    IN  SelectSeq(mvmts, Legal) \o [k \in DOMAIN free |-> Placement(color, free[k])]

moves(b) == moves_of(b, b.whose_move)

(***************************************************************************)
(* ai.rs: heuristics and minimax_eval                                      *)
(***************************************************************************)
ValuationMax == 2147483647

ValuationMin == (-2147483647) - 1

PieceCountHeuristic(b) == Cardinality(b.white) - Cardinality(b.black)

RECURSIVE Components(_, _, _)
Components(b, color, squares) ==
    IF squares = {} THEN 0
    ELSE 1 + Components(b, color, squares \ flood_fill(b, color, IterOrder(squares)[1]))

ConnectedComponentsHeuristic(b) ==
    Components(b, "Black", b.black) - Components(b, "White", b.white)

(***************************************************************************)
(* NthSmallestStringHeuristic { n }.  n is a usize, written here in words  *)
(* of 16 bits: n = upper * 2^32 + hi * 2^16 + lo.                          *)
(***************************************************************************)
Word == 65536

Usize(upper, hi, lo) == [upper |-> upper, hi |-> hi, lo |-> lo]

\* `self.n as Valuation`: the low 32 bits of n, read as a signed number.
AsValuation(n) ==
    IF n.hi >= Word \div 2 THEN (n.hi - Word) * Word + n.lo ELSE n.hi * Word + n.lo

\* `self.n as Valuation - 1`: at the least Valuation the subtraction aborts in a build
\* that checks overflow and wraps to the greatest Valuation in one that does not.
PopCount(n) ==
    IF AsValuation(n) = ValuationMin
    THEN { [panic |-> TRUE, pops |-> 0], [panic |-> FALSE, pops |-> ValuationMax] }
    ELSE { [panic |-> FALSE, pops |-> AsValuation(n) - 1] }

\* The sizes pushed by the while loop: the string of the first piece left, then the
\* strings of the pieces outside it.
RECURSIVE StringSizes(_, _, _)
StringSizes(b, color, pieces) ==
    IF pieces = {} THEN <<>>
    ELSE LET string == flood_fill(b, color, IterOrder(pieces)[1])
         IN  <<Cardinality(string)>> \o StringSizes(b, color, pieces \ string)

\* BinaryHeap: pop() takes a greatest element out.
HeapTop(heap) == CHOOSE i \in DOMAIN heap : \A j \in DOMAIN heap : heap[j] <= heap[i]

\* A heap whose pop() takes the first element pushed.
HeapPop_first(heap) == Tail(heap)

HeapPop(heap) ==
    [j \in 1..(Len(heap) - 1) |-> IF j < HeapTop(heap) THEN heap[j] ELSE heap[j + 1]]

\* `for _ in 0..times { heap.pop(); }`: no pop when times <= 0, and a pop of an empty
\* heap changes nothing.
RECURSIVE PopTimes(_, _)
PopTimes(heap, times) ==
    IF times <= 0 \/ heap = <<>> THEN heap ELSE PopTimes(HeapPop(heap), times - 1)

\* `heap.pop().unwrap_or(0)`
PopOrZero(heap) == IF heap = <<>> THEN 0 ELSE heap[HeapTop(heap)]

NthSmallestString(b, color, pops) ==
    PopOrZero(PopTimes(StringSizes(b, color, pieces_of(b, color)), pops))

\* What the call can do: abort, or return a value.
NthSmallestStringHeuristic(n, b) ==
    { IF count.panic THEN [panic |-> TRUE, value |-> 0]
      ELSE [panic |-> FALSE,
            value |-> NthSmallestString(b, "Black", count.pops)
                        - NthSmallestString(b, "White", count.pops)] :
        count \in PopCount(n) }

Heuristics == {"PieceCount", "ConnectedComponents"}

heuristic(h, b) ==
    IF h = "PieceCount" THEN PieceCountHeuristic(b) ELSE ConnectedComponentsHeuristic(b)

\* A sort that puts the larger key first.
InsertByKey_descending(p, sorted) ==
    LET Larger(q) == q[1] > p[1]
        NotLarger(q) == ~(q[1] > p[1])
    IN  SelectSeq(sorted, Larger) \o <<p>> \o SelectSeq(sorted, NotLarger)

\* One step of the stable sort: p goes before the pairs whose key is not smaller.
InsertByKey(p, sorted) ==
    LET Smaller(q) == q[1] < p[1]
        NotSmaller(q) == ~(q[1] < p[1])
    IN  SelectSeq(sorted, Smaller) \o <<p>> \o SelectSeq(sorted, NotSmaller)

\* sort_by_cached_key: a stable sort of <<key, move>> pairs by key.
RECURSIVE SortByKey(_)
SortByKey(pairs) ==
    IF pairs = <<>> THEN <<>> ELSE InsertByKey(Head(pairs), SortByKey(Tail(pairs)))

\* The key of every move: the piece count after it, negated when Black is to move.
KeyedMoves(b, unordered) ==
    [i \in DOMAIN unordered |->
        <<(IF b.whose_move = "White" THEN 1 ELSE -1)
            * PieceCountHeuristic(apply(b, unordered[i])),
          unordered[i]>>]

Unkeyed(sorted) == [i \in DOMAIN sorted |-> sorted[i][2]]

OrderedMoves(b) == Unkeyed(SortByKey(KeyedMoves(b, moves(b))))

\* The value of an expression evaluated once: the element of a one-element set.
Only(S) == CHOOSE x \in S : TRUE

\* What a call returns: a value and the table it leaves, or an abort.
Returns(value, table) == [panic |-> FALSE, value |-> value, table |-> table]

Aborts(table) == [panic |-> TRUE, value |-> 0, table |-> table]

\* minimax_eval up to its loop, looking for a winner before it looks at the depth.
EarlyReturn_winner_first(b, depth, h, table) ==
    IF TablePanics(table) THEN <<Aborts(table)>>
    ELSE IF get(table, b) # NoValue THEN <<Returns(get(table, b)[1], table)>>
    ELSE IF WinnerPanics(b) THEN <<Aborts(table)>>
    ELSE IF winner(b) = "White" THEN <<Returns(ValuationMax, table)>>
    ELSE IF winner(b) = "Black" THEN <<Returns(ValuationMin, table)>>
    ELSE IF depth = 0 THEN <<Returns(heuristic(h, b), table)>>
    ELSE IF MovesOfPanics(b, b.whose_move) THEN <<Aborts(table)>>
    ELSE IF \E m \in Range(moves(b)) : ApplyPanics(b, m) THEN <<Aborts(table)>>
    ELSE <<>>

\* minimax_eval up to its loop: <<what it returns>> when it returns (or aborts) before
\* the loop over the moves, <<>> when it goes on to the loop.  Collecting and sorting
\* the moves applies every one of them, so a move that apply rejects aborts here.
EarlyReturn(b, depth, h, table) ==
    IF TablePanics(table) THEN <<Aborts(table)>>
    ELSE IF get(table, b) # NoValue THEN <<Returns(get(table, b)[1], table)>>
    ELSE IF depth = 0 THEN <<Returns(heuristic(h, b), table)>>
    ELSE IF WinnerPanics(b) THEN <<Aborts(table)>>
    ELSE IF winner(b) = "White" THEN <<Returns(ValuationMax, table)>>
    ELSE IF winner(b) = "Black" THEN <<Returns(ValuationMin, table)>>
    ELSE IF MovesOfPanics(b, b.whose_move) THEN <<Aborts(table)>>
    ELSE IF \E m \in Range(moves(b)) : ApplyPanics(b, m) THEN <<Aborts(table)>>
    ELSE <<>>

(***************************************************************************)
(* The recursion of minimax_eval.  In mode "eval" it is a call of          *)
(* minimax_eval on b (todo and value are not read); in mode "loop" it is   *)
(* the rest of the loop of the call on b over the moves `todo`, with the   *)
(* running `value` and the window (alpha, beta) as the loop has left them. *)
(* Each argument and each result of a call is a value computed once.       *)
(***************************************************************************)
RECURSIVE Search(_, _, _, _, _, _, _, _, _)
Search(mode, b, depth, h, alpha, beta, table, todo, value) ==
    IF mode = "eval"
    THEN Only({ IF early # <<>> THEN early[1]
                ELSE Only({ IF r.panic THEN r
                            ELSE Returns(r.value, add(r.table, b, r.value)) :
                            r \in { Search("loop", b, depth, h, alpha, beta, table,
                                           ordered, start) :
                                      ordered \in { OrderedMoves(b) },
                                      start \in { IF b.whose_move = "White"
                                                  THEN ValuationMin
                                                  ELSE ValuationMax } } }) :
                early \in { EarlyReturn(b, depth, h, table) } })
    ELSE IF todo = <<>> THEN Returns(value, table)
    ELSE Only({
        IF r.panic THEN r
        ELSE Only({
            IF (IF b.whose_move = "White" THEN v >= beta ELSE v <= alpha)
            THEN Returns(v, r.table)
            ELSE Only({ Search("loop", b, depth, h, lo, hi, after, rest, v) :
                          lo \in { IF b.whose_move = "White" THEN Max(alpha, v) ELSE alpha },
                          hi \in { IF b.whose_move = "White" THEN beta ELSE Min(beta, v) },
                          after \in { r.table },
                          rest \in { Tail(todo) } }) :
            v \in { IF b.whose_move = "White" THEN Max(value, r.value)
                                              ELSE Min(value, r.value) } }) :
        r \in { Search("eval", child, less, h, alpha, beta, table, <<>>, 0) :
                  child \in { apply(b, Head(todo)) }, less \in { depth - 1 } } })

minimax_eval(b, depth, h, alpha, beta, table) ==
    Search("eval", b, depth, h, alpha, beta, table, <<>>, 0)

(***************************************************************************)
(* best_move.  The key closure of max_by_key / min_by_key runs once per    *)
(* move, in the order moves() yields them, each call on the table as the   *)
(* call before it left it.  max_by_key keeps the last of several equal     *)
(* maxima, min_by_key the first of several equal minima.                   *)
(***************************************************************************)
Chosen(move, values, table) ==
    [panic |-> FALSE, move |-> move, values |-> values, table |-> table]

NoChoice(values, table) ==
    [panic |-> TRUE, move |-> NoMove, values |-> values, table |-> table]

\* The valuations of the root children `todo`, after those in `values`.
RECURSIVE RootValues(_, _, _, _, _, _)
RootValues(b, depth, h, table, todo, values) ==
    IF todo = <<>> THEN Chosen(NoMove, values, table)
    ELSE IF ApplyPanics(b, Head(todo)) THEN NoChoice(values, table)
    ELSE Only({ IF r.panic THEN NoChoice(values, r.table)
                ELSE RootValues(b, depth, h, r.table, Tail(todo), Append(values, r.value)) :
                r \in { minimax_eval(apply(b, Head(todo)), depth - 1, h,
                                     ValuationMin, ValuationMax, table) } })

\* Iterator::max_by_key: the last index that holds the greatest key.
max_by_key(values) ==
    CHOOSE i \in DOMAIN values :
        /\ \A j \in DOMAIN values : values[j] <= values[i]
        /\ \A j \in DOMAIN values : j > i => values[j] < values[i]

\* Iterator::min_by_key: the first index that holds the least key.
min_by_key(values) ==
    CHOOSE i \in DOMAIN values :
        /\ \A j \in DOMAIN values : values[j] >= values[i]
        /\ \A j \in DOMAIN values : j < i => values[j] > values[i]

PickMove(b, found, r) ==
    IF r.panic THEN r
    ELSE IF found = <<>> THEN Chosen(NoMove, <<>>, r.table)
    ELSE IF b.whose_move = "White"
         THEN Chosen(found[max_by_key(r.values)], r.values, r.table)
         ELSE Chosen(found[min_by_key(r.values)], r.values, r.table)

\* best_move(&board, depth, &h) for depth >= 1 on the process-wide table.
best_move(b, depth, h, table) ==
    IF MovesOfPanics(b, b.whose_move) THEN NoChoice(<<>>, table)
    ELSE Only({ PickMove(b, found, RootValues(b, depth, h, table, found, <<>>)) :
                found \in { moves(b) } })

(***************************************************************************)
(* Positions the model starts from.  The boards of the tests of board.rs   *)
(* (size 9) and small boards built with from_position.                     *)
(***************************************************************************)
BOARD_SIZE == 9

TestConvertibles ==
    from_position(BOARD_SIZE, "White",
                  { <<4, 4>>, <<5, 4>>, <<4, 5>> },
                  { <<3, 3>>, <<5, 3>>, <<7, 5>>, <<6, 5>> })

TestCapturables ==
    from_position(BOARD_SIZE, "White",
                  { <<2, 2>>, <<2, 3>>, <<3, 2>>, <<4, 1>> },
                  { <<1, 1>>, <<1, 2>>, <<1, 3>>, <<2, 1>>, <<3, 1>>, <<3, 4>>, <<3, 5>>,
                    <<4, 2>>, <<4, 3>> })

TestCapturablesOnBoardEdge ==
    from_position(BOARD_SIZE, "White",
                  { <<0, 2>>, <<0, 3>>, <<1, 0>>, <<1, 1>>, <<1, 3>>, <<2, 0>>, <<2, 1>> },
                  { <<0, 0>>, <<2, 3>>, <<1, 2>> })

TestFloodFill ==
    from_position(BOARD_SIZE, "White",
                  { <<2, 2>>, <<3, 2>>, <<3, 3>>, <<4, 3>> },
                  { <<1, 2>>, <<1, 3>>, <<2, 1>>, <<2, 3>>, <<3, 1>> })

\* test_valid_move: the start position with a white piece added at (4,3).
TestValidMove ==
    LET b == start_position(BOARD_SIZE)
    IN  [b EXCEPT !.white = b.white \cup { <<4, 3>> }]

SmallSize == 4

\* White can close the corner around (0,0); Black can leap to (1,0).
CornerPosition ==
    from_position(SmallSize, "White",
                  { <<0, 1>>, <<1, 1>>, <<1, 2>> },
                  { <<0, 0>>, <<2, 0>>, <<3, 0>> })

\* Black leaping (0,0) over (1,0) to (2,0) flanks (2,1) and (1,1).
FlankPosition ==
    from_position(SmallSize, "Black",
                  { <<2, 1>>, <<1, 1>> },
                  { <<0, 0>>, <<1, 0>>, <<2, 2>>, <<0, 2>> })

\* Black leaping (0,3) over (0,2) to (0,1) both encircles and flanks (1,1).
EncirclePosition ==
    from_position(SmallSize, "Black",
                  { <<1, 1>>, <<1, 2>> },
                  { <<0, 3>>, <<0, 2>>, <<2, 1>>, <<0, 0>>, <<1, 0>>, <<2, 0>>, <<2, 2>> })

\* Both colours split over opposite corners, as in the start position: nobody has won.
SplitPosition ==
    from_position(SmallSize, "White",
                  { <<0, 0>>, <<0, 1>>, <<3, 3>>, <<3, 2>> },
                  { <<0, 3>>, <<1, 3>>, <<3, 0>>, <<2, 0>> })

\* Each colour holds two opposite corners: nobody has won, and every leap leaves the board.
StuckPosition ==
    from_position(SmallSize, "White", { <<0, 0>>, <<3, 3>> }, { <<0, 3>>, <<3, 0>> })

SmallPositions == { CornerPosition, FlankPosition, EncirclePosition, SplitPosition }

\* Reserves set by writing the public fields, as test_available_moves_with_placement does.
WithReserves(b, white_reserve, black_reserve) ==
    [b EXCEPT !.white_reserve = white_reserve, !.black_reserve = black_reserve]

InitBoards ==
    { WithReserves([b EXCEPT !.whose_move = turn], wr, br) :
        b \in SmallPositions, turn \in Colors,
        wr \in 0..MaxInitReserve, br \in 0..MaxInitReserve }
    \cup { TestCapturables, TestConvertibles, TestCapturablesOnBoardEdge }

NoResult == "none"

NoCall ==
    [depth |-> 0, heuristic |-> "PieceCount", alpha |-> 0, beta |-> 0, table |-> StaticTable]

Init ==
    /\ board \in InitBoards
    /\ ply = 0
    /\ last = [op |-> "init", mov |-> NoMove, pre |-> board, result |-> NoResult]
    /\ tt = StaticTable
    /\ aborted = FALSE
    /\ search = NoCall

(***************************************************************************)
(* The moves offered to apply: every Movement between two occupied squares *)
(* (of either colour) that names up to MaxConversions opponent pieces next *)
(* to its destination, and every Placement.                                *)
(***************************************************************************)
ConversionChoices(b, color, dst) ==
    LET near == { n \in Range(neighborhood(b, dst)) : n \in pieces_of(b, opponent(color)) }
    IN  { cs \in SUBSET near : Cardinality(cs) <= MaxConversions }

LegalBases(b) ==
    { base \in { movement(color, active, pivot) :
                   color \in Colors, active \in all_pieces(b), pivot \in all_pieces(b) } :
        valid_move(b, base) = "None" }

\* The squares a caller may name in a Placement: the board and one ring around it.
PlacementSquares(b) ==
    { <<x, y>> : x \in (-1)..b.board_size, y \in (-1)..b.board_size }

CandidateMoves(b) ==
    { Placement(color, at) : color \in Colors, at \in PlacementSquares(b) }
    \cup { movement(color, active, pivot) :
             color \in Colors, active \in all_pieces(b), pivot \in all_pieces(b) }
    \cup UNION { { Movement(base.color, base.active, base.pivot, cs) :
                     cs \in ConversionChoices(b, base.color, dest(base)) } :
                 base \in LegalBases(b) }

\* board.apply(mov) on a move valid_move accepts: the board is replaced by the result.
Apply(mov) ==
    /\ ~ApplyPanics(board, mov)
    /\ board' = apply(board, mov)
    /\ ply' = ply + 1
    /\ last' = [op |-> "apply", mov |-> mov, pre |-> board, result |-> "ok"]
    /\ UNCHANGED <<tt, aborted, search>>

\* Why apply aborts: the reason valid_move gives, or the failed assertion in the hash lookups.
PanicReason(b, mov) ==
    IF valid_move(b, mov) # "None" THEN valid_move(b, mov) ELSE "HashPanic"

\* board.apply(mov) aborting: no board is produced and the run ends.
ApplyAbort(mov) ==
    /\ ApplyPanics(board, mov)
    /\ aborted' = TRUE
    /\ last' = [op |-> "apply", mov |-> NoMove, pre |-> board,
                result |-> PanicReason(board, mov)]
    /\ UNCHANGED <<board, ply, tt, search>>

Running == ~aborted /\ ply < MaxPly

Next ==
    \/ Running /\ \E mov \in CandidateMoves(board) : Apply(mov)
    \/ Running /\ \E mov \in CandidateMoves(board) : ApplyAbort(mov)

Spec == Init /\ [][Next]_vars


(***************************************************************************)
(* The pure functions of board.rs called once on drawn arguments: the      *)
(* initial state holds the board and the pending call, the call's action   *)
(* stores what it returns.  A call is a Move record for valid_move, and a  *)
(* record of the same shape (colour, active, `at` for dest) otherwise.     *)
(***************************************************************************)
AroundReach == 2

ShapeSide == 3

Probe(kind, color, active, at) ==
    [kind |-> kind, color |-> color, active |-> active, pivot |-> <<0, 0>>,
     conversions |-> {}, at |-> at]

ValidMoveBoards ==
    { TestValidMove, WithReserves(TestValidMove, 1, 0), TestCapturables,
      EncirclePosition, WithReserves(FlankPosition, 0, 1) }

ValidMoveCalls(b) ==
    { Placement(color, at) : color \in Colors, at \in all_coords(b) }
    \cup { movement(color, active, pivot) :
             color \in Colors, active \in all_coords(b), pivot \in all_coords(b) }
    \cup UNION { { Movement(base.color, base.active, base.pivot, cs) :
                     cs \in ConversionChoices(b, base.color, dest(base)) } :
                 base \in LegalBases(b) }

AroundBoards ==
    { TestCapturables, TestCapturablesOnBoardEdge, TestConvertibles } \cup SmallPositions

NearSquares(dst) ==
    { <<dst[1] + dx, dst[2] + dy>> :
        dx \in (-AroundReach)..AroundReach, dy \in (-AroundReach)..AroundReach }

AroundCalls(b) ==
    UNION { { Probe(kind, color, active, dst) :
                kind \in {"Capturable", "Convertible"}, color \in Colors,
                active \in NearSquares(dst) } :
            dst \in all_coords(b) }

\* Every way to colour a ShapeSide x ShapeSide corner of a small board.
ShapeBoards ==
    LET corner == { <<x, y>> : x \in 0..(ShapeSide - 1), y \in 0..(ShapeSide - 1) }
    IN  { from_position(SmallSize + ShapeSide - 3, "White", white, corner \ white) :
            white \in SUBSET corner }

ConnectedBoards == { TestFloodFill } \cup SmallPositions \cup ShapeBoards

ConnectedCalls(b) == { Probe("Connected", color, <<0, 0>>, <<0, 0>>) : color \in Colors }

WinnerCalls(b) == { Probe("Winner", b.whose_move, <<0, 0>>, <<0, 0>>) }

\* minimax_eval on a reset table, empty or holding the value of another position.
MinimaxBoards ==
    SmallPositions \cup ShapeBoards
    \cup { [StuckPosition EXCEPT !.whose_move = turn] : turn \in Colors }

MinimaxTables ==
    { NewTable,
      add(NewTable, apply(SplitPosition, movement("White", <<0, 0>>, <<0, 1>>)), 7) }

MinimaxCalls(table) ==
    { [depth |-> depth, heuristic |-> h, alpha |-> ValuationMin, beta |-> ValuationMax,
       table |-> table] : depth \in 1..MaxDepth, h \in Heuristics }

\* Positions nobody has won in which some moves capture and others do not, each with
\* either colour to move and with empty or one-piece reserves.
CapturePositions ==
    { from_position(SmallSize, "White",
                    { <<1, 1>>, <<2, 1>>, <<3, 3>> },
                    { <<0, 0>>, <<1, 0>>, <<2, 2>>, <<0, 2>>, <<3, 0>> }),
      from_position(SmallSize, "White",
                    { <<0, 0>>, <<1, 0>>, <<2, 2>>, <<0, 2>> },
                    { <<2, 1>>, <<1, 1>>, <<3, 3>>, <<0, 3>> }),
      from_position(SmallSize, "White",
                    { <<0, 0>>, <<1, 0>>, <<0, 2>>, <<3, 3>>, <<2, 3>> },
                    { <<2, 1>>, <<1, 1>>, <<1, 3>> }) }

CaptureBoards ==
    { [b EXCEPT !.whose_move = turn, !.white_reserve = reserve, !.black_reserve = reserve] :
        b \in CapturePositions, turn \in Colors, reserve \in 0..MaxInitReserve }

\* A 3x3 position nobody has won, Black to move with one piece in reserve: the same
\* positions come back along different lines of play, so a deeper search meets
\* entries it has stored itself.
TinySize == 3

MaxDeepDepth == 4

RevisitPosition ==
    [from_position(TinySize, "Black",
                   { <<0, 0>>, <<0, 1>>, <<1, 1>>, <<2, 0>> },
                   { <<1, 0>>, <<1, 2>>, <<2, 2>> })
        EXCEPT !.black_reserve = 1]

DeepCalls ==
    { [depth |-> depth, heuristic |-> h, alpha |-> ValuationMin, beta |-> ValuationMax,
       table |-> NewTable] : depth \in 1..MaxDeepDepth, h \in Heuristics }

\* minimax_eval on a reset table with the full window or a narrow one.
WindowCalls ==
    { [depth |-> depth, heuristic |-> h, alpha |-> w[1], beta |-> w[2], table |-> NewTable] :
        depth \in 1..MaxDepth, h \in Heuristics,
        w \in { <<ValuationMin, ValuationMax>>, <<-1, 1>> } }

\* The boards of test_available_moves_from_start and test_available_moves_with_placement.
StartPosition == start_position(BOARD_SIZE)

PlacementTestBoard ==
    [StartPosition EXCEPT !.white = @ \ { <<3, 0>> }, !.black = @ \ { <<5, 0>> },
                          !.white_reserve = @ + 1, !.black_reserve = @ + 1]

MovesOfBoards ==
    { StartPosition, PlacementTestBoard }
    \cup { WithReserves(b, wr, br) :
             b \in SmallPositions \cup { TestConvertibles, TestCapturables },
             wr \in 0..(MaxInitReserve + 1), br \in 0..(MaxInitReserve + 1) }

MovesOfCalls(b) == { Probe("MovesOf", color, <<0, 0>>, <<0, 0>>) : color \in Colors }

\* The arguments of from_position, held as the fields it would store: squares on and
\* around a small board, and the argument of from_position_out_of_bounds_panic.
FromPositionSquares == { <<0, 0>>, <<3, 3>>, <<4, 0>>, <<0, 4>>, <<-1, 2>>, <<2, -1>> }

FromPositionArgs ==
    { from_position(SmallSize, turn, white, black) :
        turn \in Colors,
        white \in { w \in SUBSET FromPositionSquares : Cardinality(w) <= 2 },
        black \in { k \in SUBSET FromPositionSquares : Cardinality(k) <= 2 } }
    \cup { from_position(BOARD_SIZE, "White", { <<10, 1>> }, {}) }

\* The squares and reserve levels handed to the hash functions: every square of a
\* start position, and the levels the reserve table is built for.
MinBoardSize == 8

MaxHashSize == 10

HashBoards == { start_position(size) : size \in MinBoardSize..MaxHashSize }

HashCalls(b) ==
    { Probe("PieceHash", color, <<0, 0>>, at) : color \in Colors, at \in all_coords(b) }
    \cup { Probe("ReserveHash", color, <<0, 0>>, <<level, 0>>) :
             color \in Colors, level \in 0..(N_RESERVE_HASHES \div 2 - 1) }

\* Boards of from_position on which a colour has no piece: the other colour has none,
\* one piece, one group of two or two separate pieces.
PieceGroups == { {}, { <<0, 0>> }, { <<0, 0>>, <<0, 1>> }, { <<0, 0>>, <<2, 2>> } }

EmptyColourBoards ==
    { from_position(SmallSize, turn, white, {}) : turn \in Colors, white \in PieceGroups }
    \cup { from_position(SmallSize, turn, {}, black) : turn \in Colors, black \in PieceGroups }

\* Boards for NthSmallestStringHeuristic: each colour has any pieces of one row of a
\* board of StringSide squares a side, or the groups of the other small boards.
StringSide == 5

StringBoards ==
    { from_position(StringSide, "White", white, black) :
        white \in SUBSET { <<x, 0>> : x \in 0..(StringSide - 1) },
        black \in SUBSET { <<x, 2>> : x \in 0..(StringSide - 1) } }
    \cup { TestFloodFill } \cup SmallPositions

\* n from 0 to 4, and n whose low 32 bits are not n or are not a positive Valuation.
NthValues ==
    { Usize(0, 0, lo) : lo \in 0..4 }
    \cup { Usize(0, Word \div 2, 0), Usize(0, Word \div 2, 2), Usize(0, Word - 1, Word - 1),
           Usize(1, 0, 1) }

NthCalls ==
    { Probe("NthSmallestString", "White", <<n.upper, n.hi>>, <<n.lo, 0>>) : n \in NthValues }

NthOf(call) == Usize(call.active[1], call.active[2], call.at[1])

Pending(b, call) == [op |-> "pending", mov |-> call, pre |-> b, result |-> NoResult]

InitFn ==
    /\ \/ /\ board \in ValidMoveBoards
          /\ last \in { Pending(board, call) : call \in ValidMoveCalls(board) }
          /\ tt = StaticTable /\ search = NoCall
       \/ /\ board \in AroundBoards
          /\ last \in { Pending(board, call) : call \in AroundCalls(board) }
          /\ tt = StaticTable /\ search = NoCall
       \/ /\ board \in ConnectedBoards
          /\ last \in { Pending(board, call) : call \in ConnectedCalls(board) }
          /\ tt = StaticTable /\ search = NoCall
       \/ /\ board \in ConnectedBoards
          /\ last \in { Pending(board, call) : call \in WinnerCalls(board) }
          /\ tt = StaticTable /\ search = NoCall
       \/ /\ board \in MovesOfBoards
          /\ last \in { Pending(board, call) : call \in MovesOfCalls(board) }
          /\ tt = StaticTable /\ search = NoCall
       \/ /\ board \in HashBoards
          /\ last \in { Pending(board, call) : call \in HashCalls(board) }
          /\ tt = StaticTable /\ search = NoCall
       \/ /\ board \in FromPositionArgs
          /\ last = Pending(board, Probe("FromPosition", board.whose_move, <<0, 0>>, <<0, 0>>))
          /\ tt = StaticTable /\ search = NoCall
       \/ /\ board = RevisitPosition
          /\ last = Pending(board, Probe("Minimax", board.whose_move, <<0, 0>>, <<0, 0>>))
          /\ tt = NewTable
          /\ search \in DeepCalls
       \/ /\ board \in CaptureBoards
          /\ last = Pending(board, Probe("Minimax", board.whose_move, <<0, 0>>, <<0, 0>>))
          /\ tt = NewTable
          /\ search \in WindowCalls
       \/ /\ board \in MinimaxBoards
          /\ last = Pending(board, Probe("Minimax", board.whose_move, <<0, 0>>, <<0, 0>>))
          /\ tt \in MinimaxTables
          /\ search \in MinimaxCalls(tt)
       \/ /\ board \in StringBoards
          /\ last \in { Pending(board, call) : call \in NthCalls }
          /\ tt = StaticTable /\ search = NoCall
       \/ /\ board \in EmptyColourBoards
          /\ \/ /\ last \in { Pending(board, call) :
                              call \in ConnectedCalls(board) \cup WinnerCalls(board) }
                /\ tt = StaticTable /\ search = NoCall
             \/ /\ last = Pending(board, Probe("Minimax", board.whose_move,
                                                <<0, 0>>, <<0, 0>>))
                /\ tt \in MinimaxTables
                /\ search \in MinimaxCalls(tt)
    /\ ply = 0
    /\ aborted = FALSE

Returned(op, result) == [last EXCEPT !.op = op, !.result = result]

CallValidMove ==
    /\ last.op = "pending"
    /\ last.mov.kind \in {"Movement", "Placement"}
    /\ last' = Returned("valid_move", valid_move(board, last.mov))
    /\ UNCHANGED <<board, ply, tt, aborted, search>>

\* board.apply(&mov): the board is replaced by the one returned, if one is.
CallApply ==
    /\ last.op = "pending"
    /\ last.mov.kind \in {"Movement", "Placement"}
    /\ IF ApplyPanics(board, last.mov)
       THEN last' = Returned("apply", "Panic") /\ aborted' = TRUE /\ UNCHANGED board
       ELSE last' = Returned("apply", "ok") /\ board' = apply(board, last.mov)
            /\ UNCHANGED aborted
    /\ UNCHANGED <<ply, tt, search>>

\* Board::from_position(board_size, whose_move, white, black)
CallFromPosition ==
    /\ last.op = "pending"
    /\ last.mov.kind = "FromPosition"
    /\ IF FromPositionPanics(board.board_size, board.white, board.black)
       THEN last' = Returned("from_position", "Panic") /\ aborted' = TRUE
       ELSE last' = Returned("from_position", "ok") /\ UNCHANGED aborted
    /\ board' = board
    /\ UNCHANGED <<ply, tt, search>>

\* piece_hash(color, coord)
CallPieceHash ==
    /\ last.op = "pending"
    /\ last.mov.kind = "PieceHash"
    /\ IF PieceHashPanics(last.mov.color, last.mov.at)
       THEN last' = Returned("piece_hash", "Panic") /\ aborted' = TRUE
       ELSE last' = Returned("piece_hash", piece_hash(last.mov.color, last.mov.at))
            /\ UNCHANGED aborted
    /\ UNCHANGED <<board, ply, tt, search>>

\* reserve_hash(color, reserve)
CallReserveHash ==
    /\ last.op = "pending"
    /\ last.mov.kind = "ReserveHash"
    /\ IF ReserveHashPanics(last.mov.color, last.mov.at[1])
       THEN last' = Returned("reserve_hash", "Panic") /\ aborted' = TRUE
       ELSE last' = Returned("reserve_hash", reserve_hash(last.mov.color, last.mov.at[1]))
            /\ UNCHANGED aborted
    /\ UNCHANGED <<board, ply, tt, search>>

CallCapturableAround ==
    /\ last.op = "pending"
    /\ last.mov.kind = "Capturable"
    /\ last' = Returned("capturable_around",
                        capturable_around(board, last.mov.color, last.mov.active, last.mov.at))
    /\ UNCHANGED <<board, ply, tt, aborted, search>>

CallConvertibleAround ==
    /\ last.op = "pending"
    /\ last.mov.kind = "Convertible"
    /\ last' = Returned("convertible_around",
                        convertible_around(board, last.mov.color, last.mov.active, last.mov.at))
    /\ UNCHANGED <<board, ply, tt, aborted, search>>

\* color_connected: the flood fill starts at whichever square the set yields first.
CallColorConnected ==
    /\ last.op = "pending"
    /\ last.mov.kind = "Connected"
    /\ IF ColorConnectedPanics(board, last.mov.color)
       THEN /\ last' = Returned("color_connected", "Panic")
            /\ aborted' = TRUE
       ELSE /\ \E source \in pieces_of(board, last.mov.color) :
                 last' = [op |-> "color_connected",
                          mov |-> [last.mov EXCEPT !.at = source],
                          pre |-> board,
                          result |-> color_connected_from(board, last.mov.color, source)]
            /\ UNCHANGED aborted
    /\ UNCHANGED <<board, ply, tt, search>>

\* winner(): Black is asked about first.
CallWinner ==
    /\ last.op = "pending"
    /\ last.mov.kind = "Winner"
    /\ IF WinnerPanics(board)
       THEN last' = Returned("winner", "Panic") /\ aborted' = TRUE
       ELSE last' = Returned("winner", winner(board)) /\ UNCHANGED aborted
    /\ UNCHANGED <<board, ply, tt, search>>

\* moves_of(color), collected in the order it yields the moves.
CallMovesOf ==
    /\ last.op = "pending"
    /\ last.mov.kind = "MovesOf"
    /\ IF MovesOfPanics(board, last.mov.color)
       THEN last' = Returned("moves_of", "Panic") /\ aborted' = TRUE
       ELSE last' = Returned("moves_of", moves_of(board, last.mov.color))
            /\ UNCHANGED aborted
    /\ UNCHANGED <<board, ply, tt, search>>

\* minimax_eval(&board, depth, &h, alpha, beta) with the table as drawn.
CallMinimax ==
    /\ last.op = "pending"
    /\ last.mov.kind = "Minimax"
    /\ LET r == minimax_eval(board, search.depth, search.heuristic,
                             search.alpha, search.beta, tt)
       IN  /\ tt' = r.table
           /\ aborted' = r.panic
           /\ last' = Returned("minimax_eval", IF r.panic THEN "Panic" ELSE r.value)
    /\ UNCHANGED <<board, ply, search>>

\* NthSmallestStringHeuristic { n }.heuristic(&board)
CallNthSmallestString ==
    /\ last.op = "pending"
    /\ last.mov.kind = "NthSmallestString"
    /\ \E r \in NthSmallestStringHeuristic(NthOf(last.mov), board) :
          /\ last' = Returned("nth_smallest_string", IF r.panic THEN "Panic" ELSE r.value)
          /\ aborted' = r.panic
    /\ UNCHANGED <<board, ply, tt, search>>

NextFn ==
    \/ CallNthSmallestString
    \/ CallValidMove
    \/ CallCapturableAround
    \/ CallConvertibleAround
    \/ CallColorConnected
    \/ CallWinner
    \/ CallPieceHash
    \/ CallReserveHash
    \/ CallApply
    \/ CallFromPosition
    \/ CallMovesOf
    \/ CallMinimax

SpecFn == InitFn /\ [][NextFn]_vars

(***************************************************************************)
(* A search session: the table is reset, positions are evaluated with      *)
(* minimax_eval and moves of the side to move are played, all on the one   *)
(* process-wide table.                                                     *)
(***************************************************************************)
MaxEntries == 2

MaxSearchPly == 1

Windows == { <<ValuationMin, ValuationMax>>, <<-1, 1>> }

SearchBoards ==
    { [b EXCEPT !.whose_move = turn] : b \in SmallPositions, turn \in Colors }

InitSearch ==
    /\ board \in SearchBoards
    /\ ply = 0
    /\ last = [op |-> "init", mov |-> NoMove, pre |-> board, result |-> NoResult]
    /\ tt = StaticTable
    /\ aborted = FALSE
    /\ search = NoCall

\* *TRANSPOSITION_TABLE.write().unwrap() = TranspositionTable::new()
Reset ==
    /\ ~aborted
    /\ tt' = NewTable
    /\ last' = [op |-> "reset", mov |-> NoMove, pre |-> board, result |-> NoResult]
    /\ UNCHANGED <<board, ply, aborted, search>>

\* minimax_eval(&board, depth, &h, alpha, beta) on the process-wide table.
Eval(depth, h, alpha, beta) ==
    /\ ~aborted
    /\ Len(tt.entries) < MaxEntries
    /\ LET r == minimax_eval(board, depth, h, alpha, beta, tt)
       IN  /\ tt' = r.table
           /\ aborted' = r.panic
           /\ last' = [op |-> "minimax_eval", mov |-> NoMove, pre |-> board,
                       result |-> IF r.panic THEN "Panic" ELSE r.value]
    /\ search' = [depth |-> depth, heuristic |-> h, alpha |-> alpha, beta |-> beta,
                table |-> tt]
    /\ UNCHANGED <<board, ply>>

\* best_move(&board, depth, &h), as the benchmark calls it: on the table as reset,
\* and once more on the table that call has left.
BestMove(depth, h) ==
    /\ ~aborted
    /\ \/ tt.entries = <<>>
       \/ last.op = "best_move" /\ search.table.entries = <<>>
    /\ LET r == best_move(board, depth, h, tt)
       IN  /\ tt' = r.table
           /\ aborted' = r.panic
           /\ last' = [op |-> "best_move", mov |-> r.move, pre |-> board,
                       result |-> IF r.panic THEN "Panic" ELSE r.values]
    /\ search' = [depth |-> depth, heuristic |-> h, alpha |-> ValuationMin,
                  beta |-> ValuationMax, table |-> tt]
    /\ UNCHANGED <<board, ply>>

\* board = board.apply(&mov) for one of board.moves().
PlayMove(mov) ==
    /\ ~ApplyPanics(board, mov)
    /\ board' = apply(board, mov)
    /\ ply' = ply + 1
    /\ last' = [op |-> "apply", mov |-> mov, pre |-> board, result |-> "ok"]
    /\ UNCHANGED <<tt, aborted, search>>

NextSearch ==
    \/ Reset
    \/ \E depth \in 0..MaxDepth, h \in Heuristics, w \in Windows :
          Eval(depth, h, w[1], w[2])
    \/ /\ ~aborted
       /\ ply < MaxSearchPly
       /\ ~MovesOfPanics(board, board.whose_move)
       /\ \E mov \in Range(moves(board)) : PlayMove(mov)

SpecSearch == InitSearch /\ [][NextSearch]_vars

(***************************************************************************)
(* The benchmark: the table is reset and best_move is called on the same   *)
(* board again and again.                                                  *)
(***************************************************************************)
NextBest ==
    \/ Reset
    \/ \E depth \in 1..MaxDepth, h \in Heuristics : BestMove(depth, h)

SpecBest == InitSearch /\ [][NextBest]_vars

(***************************************************************************)
(* A game from the start position: the side to move plays one of           *)
(* board.moves(), as playout and the search do.                            *)
(***************************************************************************)
MaxPlayPly == 3

InitPlay ==
    /\ board = StartPosition
    /\ ply = 0
    /\ last = [op |-> "init", mov |-> NoMove, pre |-> board, result |-> NoResult]
    /\ tt = StaticTable
    /\ aborted = FALSE
    /\ search = NoCall

\* board = board.apply(&mov) for one of board.moves(); either call may abort.
Play ==
    /\ ~aborted
    /\ ply < MaxPlayPly
    /\ IF MovesOfPanics(board, board.whose_move)
       THEN /\ aborted' = TRUE
            /\ last' = [op |-> "moves", mov |-> NoMove, pre |-> board, result |-> "Panic"]
            /\ UNCHANGED <<board, ply>>
       ELSE \E mov \in Range(moves(board)) :
              IF ApplyPanics(board, mov)
              THEN /\ aborted' = TRUE
                   /\ last' = [op |-> "apply", mov |-> NoMove, pre |-> board,
                               result |-> PanicReason(board, mov)]
                   /\ UNCHANGED <<board, ply>>
              ELSE /\ board' = apply(board, mov)
                   /\ ply' = ply + 1
                   /\ last' = [op |-> "apply", mov |-> mov, pre |-> board,
                               result |-> "ok"]
                   /\ UNCHANGED aborted
    /\ UNCHANGED <<tt, search>>

NextPlay == Play

SpecPlay == InitPlay /\ [][NextPlay]_vars

(***************************************************************************)
(* The table on its own: new, add and get are public, and callers reach    *)
(* the process-wide table through its lock.  The board of the state is the *)
(* argument of the last call.                                              *)
(***************************************************************************)
MaxTableEntries == 3

\* Two positions built by from_position, and two that apply has produced.
TableBoards ==
    { SplitPosition, CornerPosition,
      apply(SplitPosition, movement("White", <<0, 0>>, <<0, 1>>)),
      apply(SplitPosition, movement("White", <<3, 3>>, <<3, 2>>)) }

TableValues == { -1, 7 }

InitTable ==
    /\ board \in TableBoards
    /\ ply = 0
    /\ last = [op |-> "init", mov |-> NoMove, pre |-> board, result |-> NoResult]
    /\ tt = StaticTable
    /\ aborted = FALSE
    /\ search = NoCall

\* *TRANSPOSITION_TABLE.write().unwrap() = TranspositionTable::new()
TableReset ==
    /\ ~aborted
    /\ tt' = NewTable
    /\ last' = [op |-> "reset", mov |-> NoMove, pre |-> board, result |-> NoResult]
    /\ UNCHANGED <<board, ply, aborted, search>>

\* TRANSPOSITION_TABLE.write().unwrap().add(&b, value)
TableAdd(b, value) ==
    /\ ~aborted
    /\ Len(tt.entries) < MaxTableEntries
    /\ board' = b
    /\ IF TablePanics(tt)
       THEN /\ aborted' = TRUE
            /\ last' = [op |-> "add", mov |-> NoMove, pre |-> b, result |-> "Panic"]
            /\ UNCHANGED tt
       ELSE /\ tt' = add(tt, b, value)
            /\ last' = [op |-> "add", mov |-> NoMove, pre |-> b, result |-> value]
            /\ UNCHANGED aborted
    /\ UNCHANGED <<ply, search>>

\* TRANSPOSITION_TABLE.read().unwrap().get(&b)
TableGet(b) ==
    /\ ~aborted
    /\ board' = b
    /\ IF TablePanics(tt)
       THEN /\ aborted' = TRUE
            /\ last' = [op |-> "get", mov |-> NoMove, pre |-> b, result |-> "Panic"]
       ELSE /\ last' = [op |-> "get", mov |-> NoMove, pre |-> b, result |-> get(tt, b)]
            /\ UNCHANGED aborted
    /\ UNCHANGED <<ply, tt, search>>

\* minimax_eval(&b, 0, &h, MIN, MAX): the lookup comes first at every depth, and at
\* depth 0 the call inserts nothing.
TableEval(b, h) ==
    /\ ~aborted
    /\ board' = b
    /\ \E r \in { minimax_eval(b, 0, h, ValuationMin, ValuationMax, tt) } :
          /\ tt' = r.table
          /\ aborted' = r.panic
          /\ last' = [op |-> "minimax_eval", mov |-> NoMove, pre |-> b,
                      result |-> IF r.panic THEN "Panic" ELSE r.value]
    /\ UNCHANGED <<ply, search>>

NextTable ==
    \/ TableReset
    \/ \E b \in TableBoards, h \in Heuristics : TableEval(b, h)
    \/ \E b \in TableBoards, value \in TableValues : TableAdd(b, value)
    \/ \E b \in TableBoards : TableGet(b)

SpecTable == InitTable /\ [][NextTable]_vars

(***************************************************************************)
(* Concurrent invocations on the process-wide table.  Each invocation goes *)
(* through the accesses of minimax_eval: the lookup under                  *)
(* TRANSPOSITION_TABLE.read(), and after a miss the insert under           *)
(* TRANSPOSITION_TABLE.write(); a reset takes write() as well.  An RwLock  *)
(* grants read() while no writer holds it and write() while nobody holds   *)
(* it.  An insert is not one step of the machine: between its beginning    *)
(* and its end the new entry is in the bucket with its value not yet       *)
(* written (Unwritten, a value no caller inserts).  In this specification `search` holds the position of *)
(* every invocation, and `last` the last lookup.                           *)
(***************************************************************************)
NumInvocations == 2

MaxLockEntries == 2

Invocations == 1..NumInvocations

Unwritten == 0

LockBoards == { SplitPosition, apply(SplitPosition, movement("White", <<0, 0>>, <<0, 1>>)) }

Idle == [pc |-> "idle", board |-> SplitPosition, found |-> NoValue]

Readers == { t \in Invocations : search[t].pc = "reading" }

Writers == { t \in Invocations : search[t].pc \in {"adding", "resetting"} }

\* RwLock::read() blocks while the lock is held for writing; with a shared guard a
\* writer would only wait for other writers.
CanRead == Writers = {}

CanWrite_shared == Writers = {}

\* RwLock::write() blocks while the lock is held at all.
CanWrite == Writers = {} /\ Readers = {}

InitLock ==
    /\ board = SplitPosition
    /\ ply = 0
    /\ last = [op |-> "init", mov |-> NoMove, pre |-> board, result |-> NoResult]
    /\ tt = NewTable
    /\ aborted = FALSE
    /\ search = [t \in Invocations |-> Idle]

\* TRANSPOSITION_TABLE.read(): the guard is granted.
StartLookup(t, b) ==
    /\ search[t].pc = "idle"
    /\ CanRead
    /\ search' = [search EXCEPT ![t] = [pc |-> "reading", board |-> b, found |-> NoValue]]
    /\ UNCHANGED <<board, ply, last, tt, aborted>>

\* .get(board) under the guard, which is dropped once the chain of tests is over.
FinishLookup(t) ==
    /\ search[t].pc = "reading"
    /\ search' = [search EXCEPT ![t] = [pc |-> IF get(tt, search[t].board) = NoValue
                                             THEN "missed" ELSE "idle",
                                        board |-> search[t].board,
                                        found |-> get(tt, search[t].board)]]
    /\ last' = [op |-> "get", mov |-> NoMove, pre |-> search[t].board,
                result |-> get(tt, search[t].board)]
    /\ UNCHANGED <<board, ply, tt, aborted>>

\* A miss that ends at depth 0 or at a winner returns without an insert.
ReturnEarly(t) ==
    /\ search[t].pc = "missed"
    /\ search' = [search EXCEPT ![t] = Idle]
    /\ UNCHANGED <<board, ply, last, tt, aborted>>

\* TRANSPOSITION_TABLE.write() is granted and .add(board, value) begins.
StartAdd(t) ==
    /\ search[t].pc = "missed"
    /\ Len(tt.entries) < MaxLockEntries
    /\ CanWrite
    /\ tt' = [tt EXCEPT !.entries =
                 Append(@, [hash |-> search[t].board.zobrist_hash, value |-> Unwritten])]
    /\ search' = [search EXCEPT ![t].pc = "adding"]
    /\ UNCHANGED <<board, ply, last, aborted>>

\* .add(board, value) ends and the guard is dropped.
FinishAdd(t, value) ==
    /\ search[t].pc = "adding"
    /\ tt' = [tt EXCEPT !.entries[Len(tt.entries)].value = value]
    /\ search' = [search EXCEPT ![t] = Idle]
    /\ UNCHANGED <<board, ply, last, aborted>>

\* let mut tt = TRANSPOSITION_TABLE.write().unwrap()
StartReset(t) ==
    /\ search[t].pc = "idle"
    /\ tt.entries # <<>>
    /\ CanWrite
    /\ search' = [search EXCEPT ![t].pc = "resetting"]
    /\ UNCHANGED <<board, ply, last, tt, aborted>>

\* *tt = TranspositionTable::new(), and the guard is dropped.
FinishReset(t) ==
    /\ search[t].pc = "resetting"
    /\ tt' = NewTable
    /\ search' = [search EXCEPT ![t] = Idle]
    /\ UNCHANGED <<board, ply, last, aborted>>

NextLock ==
    \/ \E t \in Invocations, b \in LockBoards : StartLookup(t, b)
    \/ \E t \in Invocations : FinishLookup(t)
    \/ \E t \in Invocations : ReturnEarly(t)
    \/ \E t \in Invocations : StartAdd(t)
    \/ \E t \in Invocations, value \in TableValues : FinishAdd(t, value)
    \/ \E t \in Invocations : StartReset(t)
    \/ \E t \in Invocations : FinishReset(t)

SpecLock == InitLock /\ [][NextLock]_vars

(***************************************************************************)
(* Concurrent searches, one call per invocation, with the call stack of    *)
(* each.  `search[t]` holds the stack of frames of invocation t, the guard *)
(* on TRANSPOSITION_TABLE it holds and the depth argument of its call.     *)
(* What a lookup finds, whether somebody has won and how many moves a      *)
(* position has are drawn freely.  depth is a usize: a depth is either a   *)
(* small number n, or usize::MAX - n once 0 - 1 has wrapped around.        *)
(***************************************************************************)
MaxCallDepth == 2

MaxChildren == 2

MaxStack == 4

Small(n) == [wrapped |-> FALSE, n |-> n]

\* depth - 1 on a usize: in a build with overflow checks 0 - 1 panics, without
\* them it is usize::MAX.
Overflowed == [panic |-> TRUE, depth |-> Small(0)]

Less(depth) == [panic |-> FALSE, depth |-> depth]

DepthMinusOne(depth) ==
    IF depth.wrapped THEN { Less([wrapped |-> TRUE, n |-> depth.n + 1]) }
    ELSE IF depth.n = 0 THEN { Overflowed, Less([wrapped |-> TRUE, n |-> 0]) }
    ELSE { Less(Small(depth.n - 1)) }

Frame(fn, depth, pc, todo) == [fn |-> fn, depth |-> depth, pc |-> pc, todo |-> todo]

NotCalled == [status |-> "new", guard |-> "none", stack |-> <<>>, arg |-> 0]

Top(t) == search[t].stack[Len(search[t].stack)]

InCall(t) == search[t].status = "running" /\ search[t].stack # <<>>

ReadGuards == { t \in Invocations : search[t].guard = "read" }

WriteGuards == { t \in Invocations : search[t].guard = "write" }

\* The frame on top returns: the caller goes on, or the invocation is over.
Return(t, guard) ==
    LET rest == SubSeq(search[t].stack, 1, Len(search[t].stack) - 1)
    IN  [search EXCEPT ![t].stack = rest,
                       ![t].guard = guard,
                       ![t].status = IF rest = <<>> THEN "returned" ELSE "running"]

WithTop(t, frame, guard) ==
    [search EXCEPT ![t].stack[Len(search[t].stack)] = frame, ![t].guard = guard]

InitCalls ==
    /\ board = SplitPosition
    /\ ply = 0
    /\ last = [op |-> "init", mov |-> NoMove, pre |-> board, result |-> NoResult]
    /\ tt = NewTable
    /\ aborted = FALSE
    /\ search = [t \in Invocations |-> NotCalled]

\* minimax_eval(&board, depth, ..) or best_move(&board, depth, ..) is called.
Call(t, fn, depth) ==
    /\ search[t].status = "new"
    /\ search' = [search EXCEPT ![t] =
                     [status |-> "running", guard |-> "none", arg |-> depth,
                      stack |-> << Frame(fn, Small(depth),
                                         IF fn = "minimax_eval" THEN "lookup" ELSE "loop",
                                         IF fn = "minimax_eval" THEN 0 ELSE MaxChildren) >>]]
    /\ UNCHANGED <<board, ply, last, tt, aborted>>

\* TRANSPOSITION_TABLE.read().unwrap(): granted while nobody holds the write guard.
AcquireRead(t) ==
    /\ InCall(t)
    /\ Top(t).pc = "lookup"
    /\ WriteGuards = {}
    /\ search' = WithTop(t, [Top(t) EXCEPT !.pc = "chain"], "read")
    /\ UNCHANGED <<board, ply, last, tt, aborted>>

\* The chain of tests returns: a hit, depth == 0, or a winner at depth >= 1.  The
\* read guard lives until the chain is left.
ReturnFromChain(t, hit, won) ==
    /\ InCall(t)
    /\ Top(t).pc = "chain"
    /\ hit \/ (~Top(t).depth.wrapped /\ Top(t).depth.n = 0) \/ won
    /\ search' = Return(t, "none")
    /\ UNCHANGED <<board, ply, last, tt, aborted>>

\* No test of the chain returns: the guard is dropped and the moves are collected.
LeaveChain(t, children) ==
    /\ InCall(t)
    /\ Top(t).pc = "chain"
    /\ Top(t).depth.wrapped \/ Top(t).depth.n > 0
    /\ search' = WithTop(t, [Top(t) EXCEPT !.pc = "loop", !.todo = children], "none")
    /\ UNCHANGED <<board, ply, last, tt, aborted>>

\* minimax_eval(&board.apply(&mov), depth-1, ..) for the next move.
Recurse(t) ==
    /\ InCall(t)
    /\ Top(t).pc = "loop"
    /\ Top(t).todo > 0
    /\ Len(search[t].stack) < MaxStack
    /\ \E less \in DepthMinusOne(Top(t).depth) :
          search' =
              IF less.panic
              THEN [search EXCEPT ![t].status = "panicked"]
              ELSE [search EXCEPT ![t].stack =
                       Append(SubSeq(@, 1, Len(@) - 1),
                              [Top(t) EXCEPT !.todo = @ - 1])
                       \o << Frame("minimax_eval", less.depth, "lookup", 0) >>]
    /\ UNCHANGED <<board, ply, last, tt, aborted>>

\* The loop is over, by a cut-off or after the last move: minimax_eval goes on to
\* the insert, best_move returns.
EndLoop(t) ==
    /\ InCall(t)
    /\ Top(t).pc = "loop"
    /\ search' = IF Top(t).fn = "minimax_eval"
                 THEN WithTop(t, [Top(t) EXCEPT !.pc = "store", !.todo = 0], search[t].guard)
                 ELSE Return(t, search[t].guard)
    /\ UNCHANGED <<board, ply, last, tt, aborted>>

\* TRANSPOSITION_TABLE.write().unwrap(): granted while nobody holds any guard.
AcquireWrite(t) ==
    /\ InCall(t)
    /\ Top(t).pc = "store"
    /\ WriteGuards = {} /\ ReadGuards = {}
    /\ search' = WithTop(t, [Top(t) EXCEPT !.pc = "adding"], "write")
    /\ UNCHANGED <<board, ply, last, tt, aborted>>

\* .add(board, value) is done, the guard is dropped and the value returned.
ReleaseWrite(t) ==
    /\ InCall(t)
    /\ Top(t).pc = "adding"
    /\ search' = Return(t, "none")
    /\ UNCHANGED <<board, ply, last, tt, aborted>>

StepOf(t) ==
    \/ \E fn \in {"minimax_eval", "best_move"}, depth \in 0..MaxCallDepth : Call(t, fn, depth)
    \/ AcquireRead(t)
    \/ \E hit \in BOOLEAN, won \in BOOLEAN : ReturnFromChain(t, hit, won)
    \/ \E children \in 0..MaxChildren : LeaveChain(t, children)
    \/ Recurse(t)
    \/ EndLoop(t)
    \/ AcquireWrite(t)
    \/ ReleaseWrite(t)

NextCalls == \E t \in Invocations : StepOf(t)

\* Every invocation that can take a step eventually takes one.
SpecCalls == InitCalls /\ [][NextCalls]_vars /\ \A t \in Invocations : WF_vars(StepOf(t))

(***************************************************************************)
(* Vocabulary of the properties.                                           *)
(***************************************************************************)
\* The last step was an apply that returned a board (now `board`, from `last.pre`).
Applied == last.op = "apply" /\ last.result = "ok"

AppliedMovement == Applied /\ last.mov.kind = "Movement"

AppliedPlacement == Applied /\ last.mov.kind = "Placement"

RECURSIVE XorOver(_, _)
XorOver(color, squares) ==
    IF squares = {} THEN {}
    ELSE LET c == CHOOSE x \in squares : TRUE
         IN  XorHash(piece_hash(color, c), XorOver(color, squares \ {c}))

\* The hash of a board computed from scratch.
ScratchHash(b) ==
    XorAll(<< XorOver("White", b.white), XorOver("Black", b.black),
              reserve_hash("White", b.white_reserve),
              reserve_hash("Black", b.black_reserve),
              turn_hash(b.whose_move) >>)

Total(b) ==
    Cardinality(b.white) + Cardinality(b.black) + b.white_reserve + b.black_reserve

\* The squares around dst that are flanked, encircled, and taken from the opponent.
FlankedAt(b, mov) == Range(convertible_around(b, mov.color, mov.active, dest(mov)))

EncircledAt(b, mov) == Range(capturable_around(b, mov.color, mov.active, dest(mov)))

Removed(pre, post, color) == pieces_of(pre, color) \ pieces_of(post, color)

(***************************************************************************)
(* C1: every board that apply produces carries the hash computed from      *)
(* scratch for it: the XOR of piece_hash over both colours' squares, of    *)
(* reserve_hash of both reserves and of turn_hash of the side to move.     *)
(***************************************************************************)
C1_HashFromScratch == Applied => board.zobrist_hash = ScratchHash(board)

(***************************************************************************)
(* C2: apply of an accepted move keeps |white| + |black| + white_reserve + *)
(* black_reserve.                                                          *)
(***************************************************************************)
C2_TotalConserved == Applied => Total(board) = Total(last.pre)

\* A movement that took opponent pieces and converted one has been applied.
C2_Witness ==
    /\ AppliedMovement
    /\ reserve_of(board, opponent(last.mov.color))
         > reserve_of(last.pre, opponent(last.mov.color))
    /\ reserve_of(board, last.mov.color) < reserve_of(last.pre, last.mov.color)

(***************************************************************************)
(* C3 as claimed: minimax_eval at depth 0 returns the heuristic's value of *)
(* the board, whatever the (initialised) table holds.                      *)
(***************************************************************************)
EvalAtDepthZero ==
    /\ last.op = "minimax_eval"
    /\ search.depth = 0
    /\ ~TablePanics(search.table)

C3_DepthZeroIsHeuristic ==
    EvalAtDepthZero => last.result = heuristic(search.heuristic, board)

(***************************************************************************)
(* C3 amended: minimax_eval at depth 0 returns the heuristic's value of    *)
(* the board when the table holds no entry for the board's hash, and the   *)
(* value of the first entry for that hash when it holds one; the table is  *)
(* left as it was.                                                         *)
(***************************************************************************)
EntriesFor(table, b) ==
    { i \in DOMAIN table.entries : table.entries[i].hash = b.zobrist_hash }

C3_DepthZeroOnMiss ==
    EvalAtDepthZero =>
        LET cached == EntriesFor(search.table, board)
        IN  /\ cached = {} => last.result = heuristic(search.heuristic, board)
            /\ cached # {} =>
                  \E i \in cached :
                      /\ \A j \in cached : i <= j
                      /\ last.result = search.table.entries[i].value
            /\ tt = search.table

\* A depth-0 evaluation has missed in a table that holds entries of other positions.
C3_Witness ==
    /\ EvalAtDepthZero
    /\ search.table.entries # <<>>
    /\ EntriesFor(search.table, board) = {}
    /\ last.result = heuristic(search.heuristic, board)

(***************************************************************************)
(* C4: a move that was applied is not legal on the resulting board: a      *)
(* Movement is rejected for its vacated active square, a Placement for its *)
(* occupied target.                                                        *)
(***************************************************************************)
C4_PlayedMoveRejected ==
    /\ AppliedMovement => valid_move(board, last.mov) = "ActiveNotOwned"
    /\ AppliedPlacement => valid_move(board, last.mov) = "DestNotEmpty"

\* A converting movement has been applied and is now rejected.
C4_Witness ==
    /\ AppliedMovement
    /\ last.mov.conversions \cap pieces_of(board, last.mov.color) # {}
    /\ valid_move(board, last.mov) # "None"

(***************************************************************************)
(* C6: a legal Movement moves the active square to dest in the mover's     *)
(* set, adds the declared convertible squares to it at one reserve point   *)
(* each, credits every square taken from the opponent to the opponent's    *)
(* reserve, and flips the side to move.                                    *)
(***************************************************************************)
C6_MovementEffect ==
    AppliedMovement =>
        LET pre == last.pre
            mov == last.mov
            own == mov.color
            opp == opponent(mov.color)
            converted == mov.conversions \cap FlankedAt(pre, mov)
            removed == Removed(pre, board, opp)
        IN  /\ pieces_of(board, own)
                 = ((pieces_of(pre, own) \ {mov.active}) \cup {dest(mov)}) \cup converted
            /\ mov.pivot \in pieces_of(board, own)
            /\ pieces_of(board, opp) \subseteq pieces_of(pre, opp)
            /\ converted \subseteq removed
            /\ reserve_of(board, opp) = reserve_of(pre, opp) + Cardinality(removed)
            /\ reserve_of(board, own) = reserve_of(pre, own) - Cardinality(converted)
            /\ board.whose_move = opponent(pre.whose_move)

\* A movement that converted one square and took another has been applied.
C6_Witness ==
    /\ AppliedMovement
    /\ last.mov.conversions \cap FlankedAt(last.pre, last.mov) # {}
    /\ Removed(last.pre, board, opponent(last.mov.color)) \ last.mov.conversions # {}

(***************************************************************************)
(* C7 as claimed: a flanked opponent square that is neither encircled nor  *)
(* declared in the move's conversions stays on the board as it was.        *)
(***************************************************************************)
UndeclaredFlanked(pre, mov) ==
    (FlankedAt(pre, mov) \ EncircledAt(pre, mov)) \ mov.conversions

C7_UndeclaredFlankedStays ==
    AppliedMovement =>
        \A n \in UndeclaredFlanked(last.pre, last.mov) :
            n \in pieces_of(board, opponent(last.mov.color))

(***************************************************************************)
(* C7 amended: a flanked opponent square that is not declared in the       *)
(* move's conversions is not recoloured and costs the mover nothing, but   *)
(* it is taken off the board and credited to the opponent's reserve.       *)
(***************************************************************************)
C7_UndeclaredFlankedTaken ==
    AppliedMovement =>
        LET pre == last.pre
            mov == last.mov
            opp == opponent(mov.color)
        IN  /\ \A n \in UndeclaredFlanked(pre, mov) :
                  /\ n \notin pieces_of(board, opp)
                  /\ n \notin pieces_of(board, mov.color)
            /\ reserve_of(board, opp)
                 = reserve_of(pre, opp) + Cardinality(Removed(pre, board, opp))
            /\ reserve_of(board, mov.color)
                 = reserve_of(pre, mov.color)
                     - Cardinality(mov.conversions \cap FlankedAt(pre, mov))

\* A movement that flanked a square without declaring or encircling it has been applied.
C7_Witness ==
    /\ AppliedMovement
    /\ UndeclaredFlanked(last.pre, last.mov) # {}


(***************************************************************************)
(* Geometry stated from the rules, for the properties of the pure          *)
(* functions.                                                              *)
(***************************************************************************)
Touches(a, c) == a # c /\ Abs(a[1] - c[1]) <= 1 /\ Abs(a[2] - c[2]) <= 1

\* The in-bounds 8-neighbours of a square.
Around(b, c) == { n \in all_coords(b) : Touches(n, c) }

Mirror(n, dst) == <<2 * n[1] - dst[1], 2 * n[2] - dst[2]>>

\* The checks of valid_move in their order, each with whether it fails.
MoveChecks(b, mov) ==
    LET own == pieces_of(b, mov.color)
        dst == <<2 * mov.pivot[1] - mov.active[1], 2 * mov.pivot[2] - mov.active[2]>>
        span == Max(Abs(mov.active[1] - mov.pivot[1]), Abs(mov.active[2] - mov.pivot[2]))
    IN  IF mov.kind = "Movement"
        THEN << <<"ActiveNotOwned", mov.active \notin own>>,
                <<"PivotNotOwned", mov.pivot \notin own>>,
                <<"DestNotEmpty", dst \in b.white \/ dst \in b.black>>,
                <<"DestNotInBounds", dst \notin all_coords(b)>>,
                <<"GapTooBig", span - 1 > 2>>,
                <<"TriedConvertCapture",
                  mov.conversions
                    \cap Range(capturable_around(b, mov.color, mov.active, dst)) # {}>> >>
        ELSE << <<"DestNotEmpty", mov.at \in b.white \/ mov.at \in b.black>>,
                <<"EmptyReserve", reserve_of(b, mov.color) <= 0>> >>

FirstFailing(checks) ==
    IF \E i \in DOMAIN checks : checks[i][2]
    THEN checks[CHOOSE i \in DOMAIN checks :
                  checks[i][2] /\ \A j \in 1..(i - 1) : ~checks[j][2]][1]
    ELSE "None"

(***************************************************************************)
(* C5: valid_move returns the first check that fails, in the order         *)
(* ActiveNotOwned, PivotNotOwned, DestNotEmpty, DestNotInBounds,           *)
(* GapTooBig, TriedConvertCapture for a Movement and DestNotEmpty,         *)
(* EmptyReserve for a Placement, and legal when none fails; it returns for *)
(* every move.                                                             *)
(***************************************************************************)
C5_FirstFailingCheck ==
    last.op = "valid_move" => last.result = FirstFailing(MoveChecks(board, last.mov))

\* valid_move has rejected a movement for its last check only.
C5_Witness ==
    /\ last.op = "valid_move"
    /\ last.result = "TriedConvertCapture"

(***************************************************************************)
(* C8: for dest not adjacent to active, capturable_around returns exactly  *)
(* the in-bounds neighbours of dest that hold an opponent piece and whose  *)
(* in-bounds neighbours are all occupied or dest.                          *)
(***************************************************************************)
Encircled(b, color, dst) ==
    { n \in Around(b, dst) :
        /\ n \in pieces_of(b, opponent(color))
        /\ \A liberty \in Around(b, n) :
              liberty \in b.white \/ liberty \in b.black \/ liberty = dst }

C8_CapturableIsEncircled ==
    (last.op = "capturable_around" /\ ~Touches(last.mov.active, last.mov.at)) =>
        /\ Range(last.result) = Encircled(board, last.mov.color, last.mov.at)
        /\ Len(last.result) = Cardinality(Range(last.result))

\* capturable_around has returned a piece on the edge of the board and another.
C8_Witness ==
    /\ last.op = "capturable_around"
    /\ ~Touches(last.mov.active, last.mov.at)
    /\ Len(last.result) = 2
    /\ \E n \in Range(last.result) : n[1] = 0

(***************************************************************************)
(* C9: convertible_around returns exactly the in-bounds neighbours n of    *)
(* dest that hold an opponent piece and whose mirror square 2n - dest      *)
(* holds a piece of the mover other than the active square.                *)
(***************************************************************************)
Flanked(b, color, active, dst) ==
    { n \in Around(b, dst) :
        /\ n \in pieces_of(b, opponent(color))
        /\ Mirror(n, dst) \in pieces_of(b, color)
        /\ Mirror(n, dst) # active }

C9_ConvertibleIsFlanked ==
    last.op = "convertible_around" =>
        /\ Range(last.result) = Flanked(board, last.mov.color, last.mov.active, last.mov.at)
        /\ Len(last.result) = Cardinality(Range(last.result))

\* convertible_around has returned two flanked squares.
C9_Witness ==
    /\ last.op = "convertible_around"
    /\ Len(last.result) = 2

(***************************************************************************)
(* C10: color_connected is true exactly when the colour's pieces form one  *)
(* group under orthogonal adjacency, whichever square the fill starts at.  *)
(***************************************************************************)
Orthogonal(a, c) == Abs(a[1] - c[1]) + Abs(a[2] - c[2]) = 1

\* No part of the squares is cut off from the rest.
OneGroup(squares) ==
    \A part \in SUBSET squares :
        (part # {} /\ part # squares) =>
            \E a \in part : \E c \in squares \ part : Orthogonal(a, c)

C10_ConnectedIsOneGroup ==
    (last.op = "color_connected" /\ ~aborted) =>
        last.result = OneGroup(pieces_of(board, last.mov.color))

\* color_connected has reported pieces that touch only diagonally as disconnected.
C10_Witness ==
    /\ last.op = "color_connected"
    /\ ~aborted
    /\ last.result = FALSE
    /\ \A c \in pieces_of(board, last.mov.color) :
          \E d \in pieces_of(board, last.mov.color) : Touches(c, d)

(***************************************************************************)
(* C11: winner() is Black whenever Black's pieces form one group, White    *)
(* when only White's do, and nobody otherwise; minimax_eval with depth >=  *)
(* 1 that misses the table returns MIN for a Black win (both colours       *)
(* connected included) and MAX for a White win, and leaves the table as it *)
(* was: no child is evaluated.                                             *)
(***************************************************************************)
WinnerByRule(b) ==
    IF OneGroup(b.black) THEN "Black"
    ELSE IF OneGroup(b.white) THEN "White"
    ELSE "NoWinner"

EvalMissBelowRoot ==
    /\ last.op = "minimax_eval"
    /\ ~aborted
    /\ search.depth >= 1
    /\ EntriesFor(search.table, board) = {}

C11_WinPriority ==
    /\ (last.op = "winner" /\ ~aborted) => last.result = WinnerByRule(board)
    /\ (EvalMissBelowRoot /\ WinnerByRule(board) = "Black") =>
          last.result = ValuationMin /\ tt = search.table
    /\ (EvalMissBelowRoot /\ WinnerByRule(board) = "White") =>
          last.result = ValuationMax /\ tt = search.table

\* minimax_eval has returned MIN for a position in which both colours are connected,
\* with another position's value in the table.
C11_Witness ==
    /\ EvalMissBelowRoot
    /\ board.white # {} /\ OneGroup(board.white)
    /\ board.black # {} /\ OneGroup(board.black)
    /\ search.table.entries # <<>>
    /\ last.result = ValuationMin

(***************************************************************************)
(* C12: moves_of(colour) with reserve 0 holds one Movement without         *)
(* conversions per ordered pair (active, pivot) of the colour's squares    *)
(* whose base movement is legal, and no Placement; with a positive reserve *)
(* it also holds exactly one Placement per empty square.  From the size-9  *)
(* start position each colour has 34 moves, and 78 on the board of the     *)
(* placement test.                                                         *)
(***************************************************************************)
MovesOfReturned == last.op = "moves_of" /\ ~aborted

\* How often a move occurs in a sequence of moves.
Occurrences(seq, m) == Cardinality({ i \in DOMAIN seq : seq[i] = m })

LegalByRule(b, mov) == FirstFailing(MoveChecks(b, mov)) = "None"

LegalPairs(b, color) ==
    { pair \in pieces_of(b, color) \X pieces_of(b, color) :
        LegalByRule(b, movement(color, pair[1], pair[2])) }

EmptySquares(b) == { c \in all_coords(b) : c \notin b.white /\ c \notin b.black }

C12_MovesOfContent ==
    MovesOfReturned =>
        LET found == last.result
            color == last.mov.color
            reserve == reserve_of(board, color)
            placed == { m \in Range(found) : m.kind = "Placement" }
            moved == { m \in Range(found) : m.kind = "Movement" }
        IN  /\ placed = IF reserve > 0
                        THEN { Placement(color, c) : c \in EmptySquares(board) }
                        ELSE {}
            /\ \A m \in placed : Occurrences(found, m) = 1
            /\ reserve = 0 =>
                  /\ moved = { movement(color, pair[1], pair[2]) :
                                 pair \in LegalPairs(board, color) }
                  /\ \A m \in moved : Occurrences(found, m) = 1
            /\ board = StartPosition => Len(found) = 34
            /\ board = PlacementTestBoard => Len(found) = 78

\* moves_of has returned the 78 moves of the placement test.
C12_Witness ==
    /\ MovesOfReturned
    /\ board = PlacementTestBoard
    /\ Len(last.result) = 78
    /\ \E m \in Range(last.result) : m.kind = "Placement"

(***************************************************************************)
(* C13: for every ordered pair (active, pivot) of the mover's squares      *)
(* whose base movement is legal, moves_of holds at least one Movement of   *)
(* the pair: exactly one, converting all k flanked squares, when k is at   *)
(* most the mover's reserve, and otherwise exactly one per choice of       *)
(* reserve-many of the flanked squares.                                    *)
(***************************************************************************)
\* The conversions of the movements found for one pair, in the order found.
FoundFor(found, active, pivot) ==
    LET OfPair(m) == m.kind = "Movement" /\ m.active = active /\ m.pivot = pivot
        ofPair == SelectSeq(found, OfPair)
    IN  [i \in DOMAIN ofPair |-> ofPair[i].conversions]

AffordableChoices(flanked, reserve) ==
    IF Cardinality(flanked) <= reserve THEN { flanked }
    ELSE { cs \in SUBSET flanked : Cardinality(cs) = reserve }

C13_EveryLegalPairEmits ==
    MovesOfReturned =>
        \A pair \in LegalPairs(board, last.mov.color) :
            LET color == last.mov.color
                flanked == Flanked(board, color, pair[1],
                                   dest(movement(color, pair[1], pair[2])))
                found == FoundFor(last.result, pair[1], pair[2])
            IN  /\ Len(found) >= 1
                /\ Range(found) = AffordableChoices(flanked, reserve_of(board, color))
                /\ Len(found) = Cardinality(Range(found))

(***************************************************************************)
(* C14: the conversions of every Movement that valid_move accepts are      *)
(* among the squares flanked around its destination, and there are no more *)
(* of them than the mover has pieces in reserve.                           *)
(***************************************************************************)
AcceptedMovement ==
    last.op = "valid_move" /\ last.mov.kind = "Movement" /\ last.result = "None"

C14_AcceptedConversionsAffordable ==
    AcceptedMovement =>
        /\ last.mov.conversions \subseteq
              Flanked(board, last.mov.color, last.mov.active, dest(last.mov))
        /\ Cardinality(last.mov.conversions) <= reserve_of(board, last.mov.color)

(***************************************************************************)
(* C15: in every position reached from the start position by applying     *)
(* moves taken from moves() of the current board, white_reserve and        *)
(* black_reserve are both non-negative, and neither moves() nor apply      *)
(* aborts on the way.                                                      *)
(***************************************************************************)
C15_ReservesNonNegative ==
    /\ ~aborted
    /\ board.white_reserve >= 0
    /\ board.black_reserve >= 0

\* A conversion has spent the mover's last reserve piece.
C15_Witness ==
    /\ AppliedMovement
    /\ last.mov.conversions # {}
    /\ reserve_of(last.pre, last.mov.color) = 1
    /\ reserve_of(board, last.mov.color) = 0

(***************************************************************************)
(* C16: when the white and black sets of a board are disjoint, they are    *)
(* still disjoint after apply of a move that valid_move accepts; a         *)
(* converted square has left the opponent's set when it enters the         *)
(* mover's.                                                                *)
(***************************************************************************)
Disjoint(b) == b.white \cap b.black = {}

C16_SetsStayDisjoint == (Applied /\ Disjoint(last.pre)) => Disjoint(board)

\* A declared square has changed colour.
C16_Witness ==
    /\ AppliedMovement
    /\ Disjoint(last.pre)
    /\ \E c \in last.mov.conversions :
          /\ c \in pieces_of(last.pre, opponent(last.mov.color))
          /\ c \in pieces_of(board, last.mov.color)

(***************************************************************************)
(* C17: when all pieces of a board lie within its bounds, then after apply *)
(* of a move that valid_move accepts, Movement or Placement, all pieces of *)
(* the resulting board lie within 0 <= x, y < board_size.                  *)
(***************************************************************************)
WithinBounds(b) ==
    \A c \in b.white \cup b.black :
        c[1] >= 0 /\ c[1] < b.board_size /\ c[2] >= 0 /\ c[2] < b.board_size

C17_PiecesStayInBounds == (Applied /\ WithinBounds(last.pre)) => WithinBounds(board)

(***************************************************************************)
(* C18: apply of a legal Placement adds the target square to the mover's   *)
(* set and takes one from the mover's reserve; the opponent's pieces and   *)
(* reserve are unchanged, also when the placed piece completes an          *)
(* encirclement or flanks an opponent piece; the side to move flips.       *)
(***************************************************************************)
C18_PlacementChangesMoverOnly ==
    AppliedPlacement =>
        LET mover == last.mov.color
        IN  /\ pieces_of(board, mover) = pieces_of(last.pre, mover) \cup { last.mov.at }
            /\ reserve_of(board, mover) = reserve_of(last.pre, mover) - 1
            /\ pieces_of(board, opponent(mover)) = pieces_of(last.pre, opponent(mover))
            /\ reserve_of(board, opponent(mover)) = reserve_of(last.pre, opponent(mover))
            /\ board.whose_move = opponent(last.pre.whose_move)

\* A piece was placed on the last liberty of an opponent piece and beside a flanked one.
C18_Witness ==
    /\ AppliedPlacement
    /\ Encircled(last.pre, last.mov.color, last.mov.at) # {}
    /\ Flanked(last.pre, last.mov.color, last.mov.at, last.mov.at) # {}

(***************************************************************************)
(* C19: after the table is reset, two consecutive calls of best_move with  *)
(* the same board, depth and heuristic, the second on the table the first  *)
(* has left, return the same move and give every root child the same       *)
(* valuation.                                                              *)
(***************************************************************************)
BestMoveReturned == last.op = "best_move" /\ ~aborted

C20_BestMoveIsFirstExtreme ==
    BestMoveReturned =>
        LET found == moves(board)
            values == last.result
        IN  /\ Len(values) = Len(found)
            /\ (found = <<>>) <=> (last.mov = NoMove)
            /\ found # <<>> =>
                  \E i \in DOMAIN found :
                      /\ found[i] = last.mov
                      /\ \A j \in DOMAIN found :
                            IF board.whose_move = "White"
                            THEN values[j] <= values[i]
                            ELSE values[j] >= values[i]
                      /\ \A j \in 1..(i - 1) : values[j] # values[i]

(***************************************************************************)
(* C21: get returns the valuation of the entry inserted first among those  *)
(* whose hash equals the hash of the board, or nothing when there is none; *)
(* the pieces of the board play no part.  What get answers for a hash it   *)
(* goes on answering for that hash, whatever is inserted, until the table  *)
(* is reset.                                                               *)
(***************************************************************************)
\* The values stored under a hash, in the order of their insertion.
StoredFor(table, hash) ==
    LET Under(e) == e.hash = hash
        under == SelectSeq(table.entries, Under)
    IN  [i \in DOMAIN under |-> under[i].value]

\* The answer to a lookup of a hash: the value inserted first, if any.
Answer(table, hash) ==
    IF StoredFor(table, hash) = <<>> THEN <<>> ELSE <<StoredFor(table, hash)[1]>>

TableHashes == { b.zobrist_hash : b \in TableBoards }

C21_FirstInsertedAnswers ==
    [][ /\ (last'.op = "get" /\ ~aborted') =>
              last'.result = Answer(tt', board'.zobrist_hash)
        /\ last'.op # "reset" =>
              \A hash \in TableHashes :
                  Answer(tt, hash) # <<>> => Answer(tt', hash) = Answer(tt, hash) ]_vars

\* A position built by from_position is answered with the value that was inserted
\* first under its hash, although another value was inserted under it later.
C21_Witness ==
    /\ last.op = "get"
    /\ ~aborted
    /\ board = CornerPosition
    /\ Len(StoredFor(tt, board.zobrist_hash)) = 2
    /\ StoredFor(tt, board.zobrist_hash)[1] # StoredFor(tt, board.zobrist_hash)[2]
    /\ last.result = <<StoredFor(tt, board.zobrist_hash)[1]>>

(***************************************************************************)
(* C22: between resets the table only grows.  add appends exactly one      *)
(* entry (hash, value) and leaves the entries before it as they were, also *)
(* when the hash has an entry already; no other step but a reset changes   *)
(* the entries.                                                            *)
(***************************************************************************)
C22_TableOnlyGrows ==
    [][ /\ (last'.op = "add" /\ ~aborted') =>
              tt'.entries = Append(tt.entries, [hash |-> board'.zobrist_hash,
                                                value |-> last'.result])
        /\ last'.op \notin {"add", "reset"} => tt'.entries = tt.entries ]_vars

\* The same position was added twice and has two entries.
C22_Witness ==
    /\ last.op = "add"
    /\ ~aborted
    /\ Len(StoredFor(tt, board.zobrist_hash)) = 2
    /\ Len(tt.entries) = 2

(***************************************************************************)
(* C23: with several invocations running on the process-wide table, an     *)
(* insert or a reset in progress excludes every lookup and every other     *)
(* insert or reset; lookups may be in progress together; every lookup sees *)
(* a table that results from a whole number of completed inserts.          *)
(***************************************************************************)
Torn(table) == \E i \in DOMAIN table.entries : table.entries[i].value = Unwritten

C23_ExclusiveWrite ==
    /\ Cardinality(Writers) <= 1
    /\ Writers # {} => Readers = {}
    /\ Readers # {} => ~Torn(tt)
    /\ last.op = "get" => last.result # <<Unwritten>>

\* Two lookups are in progress together on a table that holds an entry.
C23_Witness ==
    /\ Cardinality(Readers) = 2
    /\ tt.entries # <<>>
    /\ ~Torn(tt)

(***************************************************************************)
(* C24: every call of minimax_eval that misses the table has inserted an   *)
(* entry (hash of the board, returned value) when it returns, whether the  *)
(* value is the heuristic at depth 0, the value of a won position or the   *)
(* result of visiting the children.                                        *)
(***************************************************************************)
EvalMiss ==
    /\ last.op = "minimax_eval"
    /\ ~aborted
    /\ EntriesFor(search.table, board) = {}

\* The call has appended its own entry as the last one.
StoredOwnValue ==
    /\ Len(tt.entries) > Len(search.table.entries)
    /\ tt.entries[Len(tt.entries)] = [hash |-> board.zobrist_hash, value |-> last.result]

C24_MissAlwaysStores == EvalMiss => StoredOwnValue

(***************************************************************************)
(* C24 amended: a call of minimax_eval that misses the table inserts the   *)
(* entry (hash of the board, returned value), as its last insert, exactly  *)
(* when it goes on to visit the children: at depth >= 1 on a position      *)
(* nobody has won.  At depth 0 and on a won position it returns with the   *)
(* table as it found it.                                                   *)
(***************************************************************************)
C24_ExpansionStores ==
    EvalMiss =>
        IF search.depth >= 1 /\ WinnerByRule(board) = "NoWinner"
        THEN StoredOwnValue
        ELSE tt = search.table

\* A search two plies deep has stored the values of children and then its own.
C24_Witness ==
    /\ EvalMiss
    /\ search.depth = 2
    /\ WinnerByRule(board) = "NoWinner"
    /\ Len(tt.entries) >= Len(search.table.entries) + 2
    /\ StoredOwnValue

(***************************************************************************)
(* C25: in a search with depth >= 1, a position that nobody has won and in *)
(* which the side to move has no legal move is fatal: minimax_eval aborts  *)
(* without a value and writes nothing to the table for the position.       *)
(***************************************************************************)
\* Nobody has won and the side to move can neither leap nor place.
Stuck(b) ==
    /\ b.white # {}
    /\ b.black # {}
    /\ WinnerByRule(b) = "NoWinner"
    /\ LegalPairs(b, b.whose_move) = {}
    /\ reserve_of(b, b.whose_move) <= 0 \/ EmptySquares(b) = {}

EvalOfStuck ==
    /\ last.op = "minimax_eval"
    /\ search.depth >= 1
    /\ ~TablePanics(search.table)
    /\ EntriesFor(search.table, board) = {}
    /\ Stuck(board)

C25_StuckIsFatal == EvalOfStuck => (aborted /\ tt = search.table)

(***************************************************************************)
(* C26: apply of a move for which valid_move gives a reason aborts, and    *)
(* from_position aborts when a white or a black piece has a coordinate     *)
(* outside 0 <= x, y < board_size; neither returns a board then.           *)
(***************************************************************************)
C26_ErrorsAbort ==
    /\ (last.op = "apply" /\ FirstFailing(MoveChecks(last.pre, last.mov)) # "None") =>
          (aborted /\ last.result = "Panic" /\ board = last.pre)
    /\ (last.op = "from_position" /\ ~WithinBounds(last.pre)) =>
          (aborted /\ last.result = "Panic")

\* from_position has aborted on a board whose only piece off the grid is black.
C26_Witness ==
    /\ last.op = "from_position"
    /\ aborted
    /\ \E c \in last.pre.black : c[1] = last.pre.board_size
    /\ \A c \in last.pre.white : InBoundsFor(last.pre.board_size, c)

(***************************************************************************)
(* C27: for every board size from 8 up that start_position accepts,        *)
(* piece_hash gives every (colour, square of the board) a slot inside the  *)
(* table of 162 piece hashes, different pairs getting different slots, and *)
(* reserve_hash gives every (colour, level 0..19) a slot of its own inside *)
(* the table of 40 reserve hashes.                                         *)
(***************************************************************************)
C27_HashSlotsDistinct ==
    /\ last.op = "piece_hash" =>
          /\ ~aborted
          /\ \A slot \in last.result : slot[1] = "PIECE" /\ slot[2] \in 0..(N_PIECE_HASHES - 1)
          /\ \A color \in Colors, at \in all_coords(board) :
                <<color, at>> # <<last.mov.color, last.mov.at>> =>
                    (PieceHashPanics(color, at) \/ piece_hash(color, at) # last.result)
    /\ last.op = "reserve_hash" =>
          /\ ~aborted
          /\ \A slot \in last.result :
                slot[1] = "RESERVE" /\ slot[2] \in 0..(N_RESERVE_HASHES - 1)
          /\ \A color \in Colors, level \in 0..(N_RESERVE_HASHES \div 2 - 1) :
                <<color, level>> # <<last.mov.color, last.mov.at[1]>> =>
                    reserve_hash(color, level) # last.result

(***************************************************************************)
(* C28: in minimax_eval with depth >= 1 on a miss without a winner, the    *)
(* children are visited in ascending order of their piece-count difference *)
(* (white minus black) when White is to move and in descending order of it *)
(* when Black is to move, ties in the order moves() yields them; White     *)
(* keeps the running maximum and stops as soon as it is >= beta, raising   *)
(* alpha otherwise; Black keeps the running minimum and stops as soon as   *)
(* it is <= alpha, lowering beta otherwise; each child is evaluated at     *)
(* depth - 1 with the window as it stands.                                 *)
(***************************************************************************)
\* The piece-count difference of the child a move leads to.
ChildDifference(b, mov) ==
    Cardinality(apply(b, mov).white) - Cardinality(apply(b, mov).black)

\* Whether the child at place i of the enumeration is visited before the one at j.
VisitedBefore(b, diffs, i, j) ==
    \/ b.whose_move = "White" /\ diffs[i] < diffs[j]
    \/ b.whose_move = "Black" /\ diffs[i] > diffs[j]
    \/ diffs[i] = diffs[j] /\ i < j

\* The moves in the order of the visit: each at the place its rank gives it.
VisitOrder(b) ==
    LET enumerated == moves(b)
        diffs == [i \in DOMAIN enumerated |-> ChildDifference(b, enumerated[i])]
        Rank(i) == Cardinality({ j \in DOMAIN enumerated : VisitedBefore(b, diffs, j, i) })
    IN  [k \in DOMAIN enumerated |->
            enumerated[CHOOSE i \in DOMAIN enumerated : Rank(i) = k - 1]]

Visited(value, table, visited) == [value |-> value, table |-> table, visited |-> visited]

\* The visit of the children `todo` with the running value and window: the value it
\* ends with, the table it leaves and the number of children it has evaluated.
RECURSIVE Visit(_, _, _, _, _, _, _, _, _)
Visit(b, depth, h, alpha, beta, table, todo, value, visited) ==
    IF todo = <<>> THEN Visited(value, table, visited)
    ELSE Only({
        Only({
            IF b.whose_move = "White"
            THEN IF running >= beta THEN Visited(running, r.table, visited + 1)
                 ELSE Visit(b, depth, h, Max(alpha, running), beta, r.table,
                            Tail(todo), running, visited + 1)
            ELSE IF running <= alpha THEN Visited(running, r.table, visited + 1)
                 ELSE Visit(b, depth, h, alpha, Min(beta, running), r.table,
                            Tail(todo), running, visited + 1) :
            running \in { IF b.whose_move = "White" THEN Max(value, r.value)
                                                    ELSE Min(value, r.value) } }) :
        r \in { minimax_eval(apply(b, Head(todo)), depth - 1, h, alpha, beta, table) } })

\* The visit the last call has made, when it was a call that visits children.
VisitOfLast ==
    Visit(board, search.depth, search.heuristic, search.alpha, search.beta, search.table,
          VisitOrder(board),
          IF board.whose_move = "White" THEN ValuationMin ELSE ValuationMax, 0)

EvalVisits ==
    /\ EvalMiss
    /\ search.depth >= 1
    /\ WinnerByRule(board) = "NoWinner"

C28_VisitOrderAndCutoff ==
    EvalVisits =>
        \A visit \in { VisitOfLast } :
            /\ last.result = visit.value
            /\ tt = add(visit.table, board, visit.value)

\* A search two plies deep that has stopped after some, not all, of several children.
C28_Witness ==
    /\ EvalVisits
    /\ search.depth = 2
    /\ \E visit \in { VisitOfLast } :
          /\ visit.visited >= 2
          /\ visit.visited < Len(moves(board))
          /\ last.result = visit.value
    /\ \E i, j \in DOMAIN moves(board) :
          ChildDifference(board, moves(board)[i]) # ChildDifference(board, moves(board)[j])

(***************************************************************************)
(* C29: on an empty table, minimax_eval(board, depth, h, MIN, MAX) returns *)
(* the value of plain depth-limited minimax without pruning and without a  *)
(* table: the heuristic at depth 0, the win sentinel on a won position at  *)
(* depth >= 1, otherwise the maximum over the children when White is to    *)
(* move and the minimum when Black is.                                     *)
(***************************************************************************)
RECURSIVE PlainOver(_, _, _, _, _)
PlainMinimax(b, depth, h) ==
    IF depth = 0 THEN heuristic(h, b)
    ELSE IF WinnerByRule(b) = "White" THEN ValuationMax
    ELSE IF WinnerByRule(b) = "Black" THEN ValuationMin
    ELSE PlainOver(b, depth, h, moves(b),
                   IF b.whose_move = "White" THEN ValuationMin ELSE ValuationMax)

\* The maximum (White) or minimum (Black) of `value` and the children's plain values.
PlainOver(b, depth, h, todo, value) ==
    IF todo = <<>> THEN value
    ELSE Only({ PlainOver(b, depth, h, Tail(todo),
                          IF b.whose_move = "White" THEN Max(value, child)
                                                    ELSE Min(value, child)) :
                child \in { PlainMinimax(apply(b, Head(todo)), depth - 1, h) } })

EvalFromEmpty ==
    /\ last.op = "minimax_eval"
    /\ ~aborted
    /\ search.table = NewTable
    /\ search.alpha = ValuationMin
    /\ search.beta = ValuationMax

C29_EqualsPlainMinimax ==
    EvalFromEmpty => last.result = PlainMinimax(board, search.depth, search.heuristic)

(***************************************************************************)
(* C30: for each colour separately, the number of its pieces on the board  *)
(* plus its reserve is the same before and after apply of any move that    *)
(* valid_move accepts; the size-9 start position has 20 for each colour,   *)
(* so every position played from it has.                                   *)
(***************************************************************************)
ColourTotal(b, color) == Cardinality(pieces_of(b, color)) + reserve_of(b, color)

C30_ColourTotalConserved ==
    /\ \A color \in Colors : ColourTotal(StartPosition, color) = 20
    /\ Applied =>
          \A color \in Colors : ColourTotal(board, color) = ColourTotal(last.pre, color)

\* A leap that has converted a piece: the mover has paid a reserve point for the new
\* piece and the opponent has the lost piece in reserve.
C30_Witness ==
    /\ AppliedMovement
    /\ last.mov.conversions \cap FlankedAt(last.pre, last.mov) # {}
    /\ reserve_of(board, last.mov.color) = reserve_of(last.pre, last.mov.color) - 1
    /\ reserve_of(board, opponent(last.mov.color))
          > reserve_of(last.pre, opponent(last.mov.color))
    /\ Cardinality(pieces_of(board, last.mov.color))
          > Cardinality(pieces_of(last.pre, last.mov.color))

\* Every position of a game played from the start position has 20 for each colour.
C30_TwentyFromStart ==
    \A color \in Colors : ColourTotal(board, color) = 20

(***************************************************************************)
(* C31: the incremental hash is path-independent.  Every accepted move     *)
(* changes zobrist_hash by exactly the difference between the hashes of    *)
(* the two boards computed from scratch, so the hash of a board reached    *)
(* from a given start depends only on its white set, black set, reserves   *)
(* and side to move; and within one delta no square is XORed twice for the *)
(* same colour.                                                            *)
(***************************************************************************)
NoRepeat(squares) ==
    \A i, j \in DOMAIN squares : squares[i] = squares[j] => i = j

C31_HashPathIndependent ==
    Applied =>
        /\ XorHash(board.zobrist_hash, last.pre.zobrist_hash)
              = XorHash(ScratchHash(board), ScratchHash(last.pre))
        /\ \A delta \in { move_delta(last.pre, last.mov) } :
              /\ NoRepeat(delta.white_plus \o delta.white_minus)
              /\ NoRepeat(delta.black_plus \o delta.black_minus)

\* The second of two moves, a leap that took and converted pieces, has been applied:
\* the hash has been updated twice.
C31_Witness ==
    /\ AppliedMovement
    /\ ply = 2
    /\ last.mov.conversions \cap FlankedAt(last.pre, last.mov) # {}
    /\ Cardinality(Removed(last.pre, board, opponent(last.mov.color))) >= 2
    /\ last.pre.zobrist_hash # {}

(***************************************************************************)
(* C32: a search never requests the write guard while it holds a read      *)
(* guard, and holds no guard when it recurses or has returned; the stack   *)
(* of every invocation is bounded by its depth argument; so concurrent     *)
(* invocations of minimax_eval and best_move do not block one another for  *)
(* ever and each of them comes to an end.                                  *)
(***************************************************************************)
LockDiscipline ==
    \A t \in Invocations :
        /\ search[t].status # "running" => search[t].guard = "none"
        /\ InCall(t) =>
              /\ Top(t).pc \in {"lookup", "loop", "store"} => search[t].guard = "none"
              /\ Top(t).pc = "chain" => search[t].guard = "read"
              /\ Top(t).pc = "adding" => search[t].guard = "write"

\* One frame for the call and one for each level of depth below it.
DepthBoundsStack(t) == Len(search[t].stack) <= search[t].arg + 1

AllOver == \A t \in Invocations : search[t].status \in {"returned", "panicked"}

C32_NoDeadlockBoundedDepth ==
    /\ [](LockDiscipline /\ \A t \in Invocations : DepthBoundsStack(t))
    /\ <>AllOver

\* The same without the bound on the stack of best_move called with depth 0.
DepthZeroBestMove(t) ==
    /\ search[t].stack # <<>>
    /\ search[t].stack[1].fn = "best_move"
    /\ search[t].arg = 0

LocksAndTermination ==
    /\ [](LockDiscipline
           /\ \A t \in Invocations : DepthZeroBestMove(t) \/ DepthBoundsStack(t))
    /\ <>AllOver

(***************************************************************************)
(* C33: neither valid_move nor apply asks whether the colour of the move   *)
(* is the side to move.  valid_move answers the same for a move whichever  *)
(* side is to move, so a move of the colour not on turn that passes the    *)
(* ownership and geometry checks is accepted; and apply always hands the   *)
(* turn to the opponent of the side that was to move, whatever the colour  *)
(* of the move.                                                            *)
(***************************************************************************)
OtherToMove(b) == [b EXCEPT !.whose_move = opponent(b.whose_move)]

C33_TurnNotChecked ==
    /\ \A mov \in CandidateMoves(board) :
          valid_move(board, mov) = valid_move(OtherToMove(board), mov)
    /\ Applied => board.whose_move = opponent(last.pre.whose_move)

\* A leap of the colour that was not to move has been applied, and that colour is
\* to move again.
C33_Witness ==
    /\ AppliedMovement
    /\ last.mov.color # last.pre.whose_move
    /\ board.whose_move = last.mov.color

(***************************************************************************)
(* C34: the process-wide table starts without buckets.  Until it has been  *)
(* replaced by TranspositionTable::new(), every lookup, every insert and   *)
(* every call of minimax_eval aborts instead of reporting a miss; once it  *)
(* has been replaced nothing of these aborts, and a lookup misses exactly  *)
(* when nothing has been inserted under the hash.                          *)
(***************************************************************************)
TableAccess == last.op \in {"get", "add", "minimax_eval"}

C34_NoBucketsBeforeReset ==
    /\ last.op = "init" => tt.buckets = 0 /\ tt.entries = <<>>
    /\ (TableAccess /\ tt.buckets = 0) => (aborted /\ last.result = "Panic")
    /\ (TableAccess /\ tt.buckets # 0) => ~aborted
    /\ (last.op = "get" /\ tt.buckets # 0) =>
          (last.result = NoValue <=> StoredFor(tt, board.zobrist_hash) = <<>>)

\* minimax_eval was called on the table as the process starts with it, and aborted.
C34_Witness ==
    /\ last.op = "minimax_eval"
    /\ tt = StaticTable
    /\ aborted
    /\ last.result = "Panic"

\* After the reset a lookup has missed although another hash has an entry.
MissAfterReset ==
    /\ last.op = "get"
    /\ tt.buckets = TRANSPOSITION_TABLE_SIZE
    /\ tt.entries # <<>>
    /\ last.result = NoValue

(***************************************************************************)
(* C35: color_connected(colour) aborts exactly when the colour has no      *)
(* piece.  winner() asks about Black first and about White only when Black *)
(* is not connected: it aborts when Black has no piece, or when Black is   *)
(* not connected and White has no piece, and it answers Black when Black   *)
(* is one group although White has no piece.  A minimax_eval with depth    *)
(* >= 1 that misses the cache aborts where winner() aborts and returns the *)
(* minimum where winner() answers Black.                                   *)
(***************************************************************************)
HasEmptyColour(b) == \E color \in Colors : pieces_of(b, color) = {}

\* The colour's pieces are one group, from whichever of them the fill starts.
SingleGroup(b, color) ==
    /\ pieces_of(b, color) # {}
    /\ \A source \in pieces_of(b, color) : color_connected_from(b, color, source)

\* A call of minimax_eval with depth >= 1 that found nothing for the board in a table
\* that has buckets; it has left the table as it was.
MissedAtDepth ==
    /\ last.op = "minimax_eval"
    /\ search.depth >= 1
    /\ tt = search.table
    /\ ~TablePanics(tt)
    /\ get(tt, board) = NoValue

WinnerAborts(b) ==
    \/ pieces_of(b, "Black") = {}
    \/ ~SingleGroup(b, "Black") /\ pieces_of(b, "White") = {}

C35_AbortsWhereExamined ==
    /\ last.op = "color_connected" =>
          (aborted <=> pieces_of(board, last.mov.color) = {})
    /\ last.op = "winner" =>
          /\ aborted <=> WinnerAborts(board)
          /\ (SingleGroup(board, "Black") /\ pieces_of(board, "White") = {}) =>
                last.result = "Black"
    /\ (MissedAtDepth /\ HasEmptyColour(board)) =>
          /\ aborted <=> WinnerAborts(board)
          /\ ~aborted => last.result = ValuationMin

\* winner() has answered Black on a board where White has no piece.
C35_Witness ==
    /\ last.op = "winner"
    /\ pieces_of(board, "White") = {}
    /\ ~aborted
    /\ last.result = "Black"

\* The property as first stated: on a board where a colour has no piece,
\* color_connected of that colour, winner() and every minimax_eval with depth >= 1
\* that misses the cache abort.
C35_EmptyColourAborts ==
    HasEmptyColour(board) =>
        /\ (last.op = "color_connected" /\ pieces_of(board, last.mov.color) = {}) => aborted
        /\ last.op = "winner" => aborted
        /\ MissedAtDepth => aborted

\* minimax_eval has aborted at depth >= 1 on a board where only White has no piece.
AbortAtDepth ==
    /\ MissedAtDepth
    /\ aborted
    /\ pieces_of(board, "White") = {}
    /\ pieces_of(board, "Black") # {}

(***************************************************************************)
(* C36: NthSmallestStringHeuristic { n } returns, for every n, the size of *)
(* Black's n-th largest group minus the size of White's n-th largest       *)
(* group, where a colour with fewer than n groups counts 0 and n = 0       *)
(* selects like n = 1.                                                     *)
(***************************************************************************)
\* The 4-connected groups of a set of squares.
GroupsOf(squares) ==
    { group \in SUBSET squares :
        /\ group # {}
        /\ OneGroup(group)
        /\ \A a \in group : \A c \in squares \ group : ~Orthogonal(a, c) }

\* The size that fewer than k groups exceed and at least k groups reach.
KthLargest(groups, k) ==
    Cardinality(CHOOSE group \in groups :
        /\ Cardinality({ g \in groups : Cardinality(g) > Cardinality(group) }) < k
        /\ Cardinality({ g \in groups : Cardinality(g) >= Cardinality(group) }) >= k)

\* n is greater than count.
Exceeds(n, count) == n.upper > 0 \/ n.hi > 0 \/ n.lo > count

SelectedSize(squares, n) ==
    LET groups == GroupsOf(squares)
        k == Max(n.lo, 1)
    IN  IF Exceeds(n, Cardinality(groups)) \/ k > Cardinality(groups) THEN 0
        ELSE KthLargest(groups, k)

NthReturned == last.op = "nth_smallest_string"

C36_NthLargestDifference ==
    NthReturned =>
        /\ ~aborted
        /\ last.result = SelectedSize(board.black, NthOf(last.mov))
                           - SelectedSize(board.white, NthOf(last.mov))

\* The same for n below 2^31, where `n as Valuation` is n.
FitsValuation(n) == n.upper = 0 /\ n.hi < Word \div 2

NthLargestWhereFits ==
    (NthReturned /\ FitsValuation(NthOf(last.mov))) =>
        /\ ~aborted
        /\ last.result = SelectedSize(board.black, NthOf(last.mov))
                           - SelectedSize(board.white, NthOf(last.mov))

\* The second largest groups differ from the largest and decide the value.
SecondLargestDecides ==
    /\ NthReturned
    /\ NthOf(last.mov) = Usize(0, 0, 2)
    /\ ~aborted
    /\ last.result # 0
    /\ last.result # SelectedSize(board.black, Usize(0, 0, 1))
                       - SelectedSize(board.white, Usize(0, 0, 1))

====
